---------------------------- MODULE Spec2Model ----------------------------
(***************************************************************************)
(* Model of backend/tag_extraction.py of sonatrach-manager: the persistent *)
(* tag vocabulary (extracted_data.json), its repair pass, the tag          *)
(* candidate scanner and process_pdf_for_tags.                             *)
(*                                                                         *)
(* Strings the code inspects character by character (tokens, tags,         *)
(* filenames, acronyms) are sequences of one-character strings, so that    *)
(* the regular expressions, str.split and string concatenation are         *)
(* computed and not assumed.  A file key "file_<n>" is the pair            *)
(* <<"file_", n>>.  A Python dict is a function; a Python list a sequence. *)
(***************************************************************************)
EXTENDS Integers, Sequences, FiniteSets, TLC

VARIABLES
    store,   \* extracted_data.json: [exists, readable, content]
    log,     \* logs/repair_log.txt: the sequence of appended entries
    calls,   \* what each finished call was given, returned and wrote
    data,    \* the in-memory vocabulary handed to repair_data_structure
    scan,    \* one extract_possible_tags call: its arguments and results
    race,    \* two process_pdf_for_tags runs in flight on the same file
    doc,     \* main.py: a document under analysis and what the calls returned
    splitter \* datasheet_splitter.py: the clock, the index file, the datasheets
             \* directory and the process_document calls made

vars == <<store, log, calls, data, scan, race, doc, splitter>>

(***************************************************************************)
(* Bounds of the model.                                                    *)
(***************************************************************************)
MaxCalls == 2          \* process_pdf_for_tags calls from an arbitrary vocabulary
MaxDefaultCalls == 3   \* process_pdf_for_tags calls from the empty default
MaxRepairRuns == 3     \* successive repair_data_structure runs on one vocabulary
MaxRepairKeys == 3     \* file keys file_1..file_n of a vocabulary given to repair
MaxTokens == 3         \* length of a token stream given to extract_possible_tags
MaxNoteLines == 3      \* lines of a text given to extract_notes_by_pattern
MaxPatternWords == 3   \* words of a text given to extract_two_letter_four_number_patterns
MaxDocLines == 2       \* lines of a text given to analyze_pid_content
MaxAnalyses == 2       \* analyze_pid_content calls on one document
MaxPages == 3          \* pages of a PDF given to detect_datasheet_pages
MaxSplitPages == 2     \* pages of a PDF given to process_document
MaxSplitCalls == 2     \* process_document calls
MaxClock == 1          \* seconds that pass while process_document is called

(***************************************************************************)
(* Characters and strings.                                                 *)
(***************************************************************************)
UpperLetters ==
    {"A","B","C","D","E","F","G","H","I","J","K","L","M",
     "N","O","P","Q","R","S","T","U","V","W","X","Y","Z"}

Digits == {"0","1","2","3","4","5","6","7","8","9"}

\* Code-point order of the characters the model uses.
AsciiOrder ==
    <<" ","-",".","0","1","2","3","4","5","6","7","8","9",
      "A","B","C","D","E","F","G","H","I","J","K","L","M",
      "N","O","P","Q","R","S","T","U","V","W","X","Y","Z","_",
      "a","b","c","d","e","f","g","h","i","j","k","l","m",
      "n","o","p","q","r","s","t","u","v","w","x","y","z">>

CharCode(c) == CHOOSE i \in DOMAIN AsciiOrder : AsciiOrder[i] = c

\* Python's < on str: by code point, a proper prefix first.
RECURSIVE StrLess(_, _)
StrLess(a, b) ==
    IF b = <<>> THEN FALSE
    ELSE IF a = <<>> THEN TRUE
    ELSE IF a[1] # b[1] THEN CharCode(a[1]) < CharCode(b[1])
    ELSE StrLess(Tail(a), Tail(b))

\* Python's `x in lst` on a list.
ListContains(lst, x) == \E i \in DOMAIN lst : lst[i] = x

Range(s) == {s[i] : i \in DOMAIN s}

\* str.split(sep) for a one-character separator.
RECURSIVE Split(_, _)
Split(s, sep) ==
    IF \E i \in DOMAIN s : s[i] = sep
    THEN LET i == CHOOSE j \in DOMAIN s :
                      s[j] = sep /\ \A k \in 1..(j - 1) : s[k] # sep
         IN  <<SubSeq(s, 1, i - 1)>> \o Split(SubSeq(s, i + 1, Len(s)), sep)
    ELSE <<s>>

\* re.fullmatch of a character class repeated lo..hi times.
ClassRun(w, class, lo, hi) ==
    /\ Len(w) >= lo
    /\ Len(w) <= hi
    /\ \A i \in DOMAIN w : w[i] \in class

(***************************************************************************)
(* The vocabulary document.                                                *)
(***************************************************************************)
FileKey(n) == <<"file_", n>>

KeyNumber(k) == k[2]

\* Body applied to a value that is computed once.
With(value, Body(_)) == CHOOSE result \in {Body(v) : v \in {value}} : TRUE

EmptyMap == [k \in {} |-> <<>>]

\* dict with key k (re)bound to v.
Put(f, k, v) == (k :> v) @@ f

default_data ==
    [files |-> EmptyMap, instruments |-> EmptyMap,
     acronyms_to_types |-> EmptyMap, not_tags |-> <<>>]

\* The keys of a set of file keys as a list, in ascending key number: the
\* order in which the code inserted them.
RECURSIVE KeyList(_)
KeyList(S) ==
    IF S = {} THEN <<>>
    ELSE LET k == CHOOSE x \in S : \A y \in S : KeyNumber(x) <= KeyNumber(y)
         IN  <<k>> \o KeyList(S \ {k})

(***************************************************************************)
(* repair_data_structure.  A log line is [kind, key]; the entry of one run *)
(* is the list of its lines.                                               *)
(***************************************************************************)
Line(kind, key) == [kind |-> kind, key |-> key]

NoKey == FileKey(0)

\* for orphan_key in orphans: del data["instruments"][orphan_key]
orphans(d) == {k \in DOMAIN d.instruments : k \notin DOMAIN d.files}

remove_orphans(d) ==
    [d EXCEPT !.instruments = [k \in DOMAIN d.instruments \ orphans(d) |->
                                  d.instruments[k]]]

\* files without an instrument list, or with an empty one
empty_files(d) ==
    {k \in DOMAIN d.files :
        k \notin DOMAIN d.instruments \/ d.instruments[k] = <<>>}

remove_empty_files(d) ==
    [d EXCEPT !.files = [k \in DOMAIN d.files \ empty_files(d) |-> d.files[k]]]

\* `repaired = True` missing from the loop that deletes the files.
repair_log_lines_flag_slip(d, d1) ==
    LET orphan_lines == [i \in DOMAIN KeyList(orphans(d)) |->
                            Line("orphan_removed", KeyList(orphans(d))[i])]
        empty_lines == [i \in DOMAIN KeyList(empty_files(d1)) |->
                            Line("empty_file_removed", KeyList(empty_files(d1))[i])]
        repaired == orphans(d) # {}
        last_line == IF ~repaired THEN Line("no_inconsistency", NoKey)
                     ELSE Line("repaired", NoKey)
    IN  <<Line("start", NoKey)>> \o orphan_lines \o empty_lines \o <<last_line>>

\* log_lines of one run: d is the vocabulary given, d1 the vocabulary once
\* the orphaned instrument lists are deleted.
repair_log_lines(d, d1) ==
    LET orphan_lines == [i \in DOMAIN KeyList(orphans(d)) |->
                            Line("orphan_removed", KeyList(orphans(d))[i])]
        empty_lines == [i \in DOMAIN KeyList(empty_files(d1)) |->
                            Line("empty_file_removed", KeyList(empty_files(d1))[i])]
        repaired == orphans(d) # {} \/ empty_files(d1) # {}
        last_line == IF ~repaired THEN Line("no_inconsistency", NoKey)
                     ELSE Line("repaired", NoKey)
    IN  <<Line("start", NoKey)>> \o orphan_lines \o empty_lines \o <<last_line>>

repair_data_structure(d) ==
    LET d1 == remove_orphans(d)
        d2 == remove_empty_files(d1)
    IN  [data |-> d2, log_lines |-> repair_log_lines(d, d1)]

(***************************************************************************)
(* extract_possible_tags and clean_final_tags.                             *)
(***************************************************************************)
LowerLetters ==
    {"a","b","c","d","e","f","g","h","i","j","k","l","m",
     "n","o","p","q","r","s","t","u","v","w","x","y","z"}

\* The acronym pattern compiled with re.IGNORECASE.
pattern_accronym_ignorecase(word) ==
    ClassRun(word, UpperLetters \cup LowerLetters, 1, 6)

\* pattern_accronym = r"^[A-Z]{1,6}$", by re.fullmatch
pattern_accronym(word) == ClassRun(word, UpperLetters, 1, 6)

\* pattern_id_tag = r"^[0-9]{4}[A-Z]?$", by re.fullmatch
pattern_id_tag(word) ==
    \E k \in 0..Len(word) :
        /\ ClassRun(SubSeq(word, 1, k), Digits, 4, 4)
        /\ ClassRun(SubSeq(word, k + 1, Len(word)), UpperLetters, 0, 1)

\* f"{accronym}-{id_tag}"
full_tag(accronym, id_tag) == accronym \o <<"-">> \o id_tag

\* `list_tags.append(accronym)` left out.
scan_step_forgets(st, text_list, not_tags, i) ==
    LET word == text_list[i]
    IN  IF /\ 0 < Len(word)
           /\ Len(word) <= 6
           /\ pattern_accronym(word)
           /\ ~ListContains(not_tags, word)
           /\ i + 1 <= Len(text_list)
           /\ pattern_id_tag(text_list[i + 1])
        THEN LET tagged == [st EXCEPT !.full_tag_list =
                               Append(@, full_tag(word, text_list[i + 1]))]
             IN  IF ~ListContains(st.list_tags, word)
                 THEN [tagged EXCEPT !.new_acronyms = Append(@, word)]
                 ELSE tagged
        ELSE st

\* One turn of `for i, word in enumerate(text_list)`; i counts from 1 here,
\* so Python's `i + 1 < len(text_list)` is i + 1 <= Len(text_list).
scan_step(st, text_list, not_tags, i) ==
    LET word == text_list[i]
    IN  IF /\ 0 < Len(word)
           /\ Len(word) <= 6
           /\ pattern_accronym(word)
           /\ ~ListContains(not_tags, word)
           /\ i + 1 <= Len(text_list)
           /\ pattern_id_tag(text_list[i + 1])
        THEN LET tagged == [st EXCEPT !.full_tag_list =
                               Append(@, full_tag(word, text_list[i + 1]))]
             IN  IF ~ListContains(st.list_tags, word)
                 THEN [tagged EXCEPT !.new_acronyms = Append(@, word),
                                     !.list_tags = Append(@, word)]
                 ELSE tagged
        ELSE st

RECURSIVE scan_from(_, _, _, _)
scan_from(st, text_list, not_tags, i) ==
    IF i > Len(text_list) THEN st
    ELSE scan_from(scan_step(st, text_list, not_tags, i), text_list, not_tags, i + 1)

\* Returns full_tag_list and new_acronyms; list_tags is the caller's list as
\* the call leaves it (the code appends to it in place).
extract_possible_tags(text_list, not_tags, list_tags) ==
    scan_from([full_tag_list |-> <<>>, new_acronyms |-> <<>>,
               list_tags |-> list_tags],
              text_list, not_tags, 1)

\* tag.split("-")[0]
tag_acronym(tag) == Split(tag, "-")[1]

clean_final_tags(full_tag_list, d) ==
    SelectSeq(full_tag_list, LAMBDA tag : ~ListContains(d.not_tags, tag_acronym(tag)))

(***************************************************************************)
(* Loading the vocabulary.                                                 *)
(***************************************************************************)
StoreFile == "extracted_data.json"
RepairLogFile == "logs/repair_log.txt"
TempPdfFile == "tempfile.pdf"

\* The document rebuilt on loading without its not_tags list.
load_json_file_drops_not_tags(st) ==
    IF st.exists /\ st.readable
    THEN [data |-> [st.content EXCEPT !.not_tags = <<>>], store |-> st, wrote |-> {}]
    ELSE IF st.exists
    THEN [data |-> default_data, store |-> st, wrote |-> {}]
    ELSE [data |-> default_data,
          store |-> [exists |-> TRUE, readable |-> TRUE, content |-> default_data],
          wrote |-> {StoreFile}]

\* load_json_file: the stored document; the default structure, written
\* first, when the file does not exist; and, when open or json.load raises,
\* the default structure from the except branch, with nothing written.
load_json_file(st) ==
    IF st.exists /\ st.readable
    THEN [data |-> st.content, store |-> st, wrote |-> {}]
    ELSE IF st.exists
    THEN [data |-> default_data, store |-> st, wrote |-> {}]
    ELSE [data |-> default_data,
          store |-> [exists |-> TRUE, readable |-> TRUE, content |-> default_data],
          wrote |-> {StoreFile}]

\* The write dropped: the file keeps what it held.
save_json_file_write_dropped(current, d) == current

\* save_json_file: open(file_path, "w") and json.dump(data): the document
\* in memory replaces whatever the file held.
save_json_file(current, d) == d

\* sorted(..., key=lambda x: (-len(x[0]), x[0])): longer acronyms first
sorts_before(a, b) == Len(a) > Len(b) \/ (Len(a) = Len(b) /\ StrLess(a, b))

RECURSIVE sorted_acronyms(_)
sorted_acronyms(S) ==
    IF S = {} THEN <<>>
    ELSE LET a == CHOOSE x \in S : \A y \in S \ {x} : sorts_before(x, y)
         IN  <<a>> \o sorted_acronyms(S \ {a})

load_reference_data(st) ==
    LET l == load_json_file(st)
    IN  [data |-> l.data,
         list_tags |-> sorted_acronyms(DOMAIN l.data.acronyms_to_types),
         not_tags |-> l.data.not_tags,
         store |-> l.store,
         wrote |-> l.wrote]

(***************************************************************************)
(* save_pdf_data.                                                          *)
(***************************************************************************)
UNKNOWN == <<"U","N","K","N","O","W","N">>

unit_code_of(pdf_filename) ==
    LET parts == Split(pdf_filename, "-")
    IN  IF Len(parts) > 1 THEN parts[2] ELSE UNKNOWN

\* The key numbered by the count itself, without the + 1.
new_file_key_zero_based(d) == FileKey(Cardinality(DOMAIN d.files))

\* "file_" + str(len(data["files"]["pid"]) + 1)
new_file_key(d) == FileKey(Cardinality(DOMAIN d.files) + 1)

\* The unit code stored where the path belongs.
file_entry_unit_as_path(pdf_filename, unit_code, final_tags) ==
    [path |-> unit_code, unit |-> unit_code,
     number_of_instruments |-> Len(final_tags)]

file_entry(pdf_filename, unit_code, final_tags) ==
    [path |-> pdf_filename, unit |-> unit_code,
     number_of_instruments |-> Len(final_tags)]

instrument_entry(unit_code, instrument) ==
    [tag |-> unit_code \o <<"-">> \o instrument,
     tag_less_unit |-> instrument,
     accronyme |-> tag_acronym(instrument),
     datasheet |-> [file_id |-> "", pages |-> <<>>]]

save_pdf_data(d, pdf_filename, final_tags) ==
    LET unit_code == unit_code_of(pdf_filename)
        file_key == new_file_key(d)
        held == IF file_key \in DOMAIN d.instruments
                THEN d.instruments[file_key] ELSE <<>>
        added == [i \in DOMAIN final_tags |->
                     instrument_entry(unit_code, final_tags[i])]
    IN  [data |-> [d EXCEPT
                     !.files = Put(@, file_key,
                                   file_entry(pdf_filename, unit_code, final_tags)),
                     !.instruments = IF final_tags = <<>> THEN @
                                     ELSE Put(@, file_key, held \o added)],
         file_key |-> file_key]

(***************************************************************************)
(* process_pdf_for_tags.  text_list is what extract_text_from_content      *)
(* returns for the uploaded bytes.                                         *)
(***************************************************************************)
\* The filename compared with the unit of each entry, not with its path.
already_processed_by_unit(d, filename) ==
    \E k \in DOMAIN d.files : d.files[k].unit = filename

\* any(filename == file_data["path"] for file_data in ...values())
already_processed(d, filename) ==
    \E k \in DOMAIN d.files : d.files[k].path = filename

\* The auto-approval loop left out.
auto_approve_skipped(d, new_acronyms) == d

\* for acronym in new_acronyms: if acronym not in ...: ...[acronym] = ""
auto_approve(d, new_acronyms) ==
    LET known == d.acronyms_to_types
    IN  [d EXCEPT !.acronyms_to_types =
            [a \in DOMAIN known \cup Range(new_acronyms) |->
                IF a \in DOMAIN known THEN known[a] ELSE ""]]

\* The guard `if final_tags:` left out.
should_save_always(final_tags) == TRUE

\* if final_tags:
should_save(final_tags) == final_tags # <<>>

\* The test `if not text_list:` never true.
no_text_never(text_list) == FALSE

\* if not text_list:
no_text(text_list) == text_list = <<>>

Result(status, tags, new_acronyms, file_key) ==
    [status |-> status, tags |-> tags, new_acronyms |-> new_acronyms,
     file_key |-> file_key]

process_pdf_for_tags(st, text_list, filename) ==
    LET ref == load_reference_data(st)
        rep == repair_data_structure(ref.data)
        d == rep.data
        ex == extract_possible_tags(text_list, ref.not_tags, ref.list_tags)
        final_tags == clean_final_tags(ex.full_tag_list, d)
        approved == auto_approve(d, ex.new_acronyms)
        saved == save_pdf_data(approved, filename, final_tags)
    IN  IF already_processed(d, filename)
        THEN [store |-> ref.store, log_lines |-> rep.log_lines,
              wrote |-> ref.wrote \cup {RepairLogFile},
              result |-> Result("already_processed", <<>>, <<>>, NoKey)]
        ELSE IF no_text(text_list)
        THEN [store |-> ref.store, log_lines |-> rep.log_lines,
              wrote |-> ref.wrote \cup {RepairLogFile, TempPdfFile},
              result |-> Result("error", <<>>, <<>>, NoKey)]
        ELSE IF should_save(final_tags)
        THEN [store |-> [exists |-> TRUE, readable |-> TRUE, content |-> saved.data],
              log_lines |-> rep.log_lines,
              wrote |-> ref.wrote \cup {RepairLogFile, TempPdfFile, StoreFile},
              result |-> Result("success", final_tags, ex.new_acronyms,
                                saved.file_key)]
        ELSE [store |-> ref.store, log_lines |-> rep.log_lines,
              wrote |-> ref.wrote \cup {RepairLogFile, TempPdfFile},
              result |-> Result("success", final_tags, ex.new_acronyms, NoKey)]

(***************************************************************************)
(* backend/main.py: the text analyzers.  A text is a sequence of           *)
(* one-character strings; the regular expressions of the code are          *)
(* sequences of items (a repeated character class, \b or $) matched the    *)
(* way re matches them: leftmost, each repetition as long as the rest of   *)
(* the pattern allows, alternatives in their order.                        *)
(***************************************************************************)
Letters == UpperLetters \cup LowerLetters

WordChars == Letters \cup Digits \cup {"_"}

Whitespace == {" ", "\t", "\n", "\r"}

\* The characters "•" and "°" of the bullet and temperature patterns.
Bullet == "<bullet>"
DegreeSign == "<degree>"

ToLower(c) == IF c \in UpperLetters THEN AsciiOrder[CharCode(c) + 27] ELSE c

ToUpper(c) == IF c \in LowerLetters THEN AsciiOrder[CharCode(c) - 27] ELSE c

\* str.lower(), str.upper()
Lower(s) == [i \in DOMAIN s |-> ToLower(s[i])]

Upper(s) == [i \in DOMAIN s |-> ToUpper(s[i])]

\* str.title(): a letter that follows no letter in upper case, the other
\* letters in lower case.
Title(s) ==
    [i \in DOMAIN s |->
        IF i > 1 /\ s[i - 1] \in Letters THEN ToLower(s[i]) ELSE ToUpper(s[i])]

\* str.strip()
RECURSIVE LStrip(_)
LStrip(s) ==
    IF s # <<>> /\ s[1] \in Whitespace THEN LStrip(Tail(s)) ELSE s

RECURSIVE RStrip(_)
RStrip(s) ==
    IF s # <<>> /\ s[Len(s)] \in Whitespace
    THEN RStrip(SubSeq(s, 1, Len(s) - 1)) ELSE s

Strip(s) == RStrip(LStrip(s))

\* `sub in s` on str
Contains(s, sub) ==
    \E i \in 1..(Len(s) - Len(sub) + 1) : SubSeq(s, i, i + Len(sub) - 1) = sub

\* s.startswith(prefix)
StartsWith(s, prefix) ==
    Len(s) >= Len(prefix) /\ SubSeq(s, 1, Len(prefix)) = prefix

\* sep.join(lst)
RECURSIVE Join(_, _)
Join(lst, sep) ==
    With(lst, LAMBDA l : IF l = <<>> THEN <<>>
                         ELSE IF Len(l) = 1 THEN l[1]
                         ELSE l[1] \o sep \o Join(Tail(l), sep))

\* str.split(): the runs of characters that are not whitespace
RECURSIVE SplitWords(_)
SplitWords(s) ==
    LET t == LStrip(s)
    IN  IF t = <<>> THEN <<>>
        ELSE LET stops == {i \in DOMAIN t : t[i] \in Whitespace}
                 n == IF stops = {} THEN Len(t)
                      ELSE (CHOOSE i \in stops : \A j \in stops : i <= j) - 1
             IN  <<SubSeq(t, 1, n)>> \o SplitWords(SubSeq(t, n + 1, Len(t)))

\* str.replace(":", "")
RECURSIVE RemoveColons(_)
RemoveColons(s) ==
    IF s = <<>> THEN <<>>
    ELSE IF s[1] = ":" THEN RemoveColons(Tail(s))
    ELSE <<s[1]>> \o RemoveColons(Tail(s))

\* str(n) for a count
DigitChars == <<"0","1","2","3","4","5","6","7","8","9">>

RECURSIVE Str(_)
Str(n) ==
    IF n < Len(DigitChars) THEN <<DigitChars[n + 1]>>
    ELSE Str(n \div Len(DigitChars)) \o <<DigitChars[(n % Len(DigitChars)) + 1]>>

\* Items of a regular expression.
Item(kind, set, neg, lo, hi, more) ==
    [kind |-> kind, set |-> set, neg |-> neg, min |-> lo, max |-> hi, more |-> more]

\* X{lo,hi}, X, X?, X+, X*
Rep(set, lo, hi) == Item("class", set, FALSE, lo, hi, FALSE)
One(set) == Item("class", set, FALSE, 1, 1, FALSE)
Opt(set) == Item("class", set, FALSE, 0, 1, FALSE)
Plus(set) == Item("class", set, FALSE, 1, 1, TRUE)
Star(set) == Item("class", set, FALSE, 0, 0, TRUE)
\* .+ (any character but a newline)
DotPlus == Item("class", {"\n"}, TRUE, 1, 1, TRUE)
\* \b and $
WB == Item("wb", {}, FALSE, 0, 0, FALSE)
EndOfString == Item("end", {}, FALSE, 0, 0, FALSE)

\* A literal word, under re.IGNORECASE when ignorecase is TRUE.
Literal(word, ignorecase) ==
    [i \in DOMAIN word |->
        One(IF ignorecase THEN {ToLower(word[i]), ToUpper(word[i])} ELSE {word[i]})]

InClass(c, it) == (c \in it.set) # it.neg

RECURSIVE RunLen(_, _, _, _)
RunLen(s, i, it, n) ==
    IF i + n <= Len(s) /\ InClass(s[i + n], it) /\ (it.more \/ n < it.max)
    THEN RunLen(s, i, it, n + 1) ELSE n

IsWordAt(s, i) == i \in DOMAIN s /\ s[i] \in WordChars

WordBoundary(s, i) == IsWordAt(s, i - 1) # IsWordAt(s, i)

\* The position after the match of items[k..] that starts at position i of
\* s, or 0 when there is none.
RECURSIVE MatchEnd(_, _, _, _)
RECURSIVE GiveBack(_, _, _, _, _)
MatchEnd(s, i, items, k) ==
    IF k > Len(items) THEN i
    ELSE LET it == items[k]
         IN  IF it.kind = "wb"
             THEN IF WordBoundary(s, i) THEN MatchEnd(s, i, items, k + 1) ELSE 0
             ELSE IF it.kind = "end"
             THEN IF i = Len(s) + 1 THEN MatchEnd(s, i, items, k + 1) ELSE 0
             ELSE LET run == RunLen(s, i, it, 0)
                  IN  IF run < it.min THEN 0 ELSE GiveBack(s, i, items, k, run)

\* Item k repeated n times, then one time fewer, ... down to its minimum,
\* until the rest of the pattern matches.
GiveBack(s, i, items, k, n) ==
    With(MatchEnd(s, i + n, items, k + 1),
         LAMBDA rest : IF rest # 0 THEN rest
                       ELSE IF n > items[k].min THEN GiveBack(s, i, items, k, n - 1)
                       ELSE 0)

\* re.match of a pattern (a sequence of alternatives) at position i: the
\* first alternative that matches, 0 when none does.
MatchingAlt(s, i, alts) ==
    With({a \in DOMAIN alts : MatchEnd(s, i, alts[a], 1) # 0},
         LAMBDA good : IF good = {} THEN 0
                       ELSE CHOOSE a \in good : \A b \in good : a <= b)

NoMatch == [start |-> 0, stop |-> 0, alt |-> 0]

\* re.search from position `from` on: the leftmost match.
Search(s, alts, from) ==
    With({i \in from..(Len(s) + 1) : MatchingAlt(s, i, alts) # 0},
         LAMBDA starts :
             IF starts = {} THEN NoMatch
             ELSE LET i == CHOOSE j \in starts : \A k \in starts : j <= k
                      a == MatchingAlt(s, i, alts)
                  IN  [start |-> i, stop |-> MatchEnd(s, i, alts[a], 1), alt |-> a])

\* re.findall: the matches from left to right, none overlapping another.
RECURSIVE FindAll(_, _, _)
FindAll(s, alts, from) ==
    With(Search(s, alts, from),
         LAMBDA m : IF m.start = 0 THEN <<>>
                    ELSE <<m>> \o FindAll(s, alts, IF m.stop > m.start
                                                   THEN m.stop ELSE m.stop + 1))

Matched(s, m) == SubSeq(s, m.start, m.stop - 1)

\* re.match(pattern, s)
MatchesAtStart(s, alts) == MatchingAlt(s, 1, alts) # 0

\* dict.update
Update(d, e) == e @@ d

RECURSIVE UpdatedBy(_, _)
\* data.update(steps[1]); ...; data.update(steps[n]) on an empty dict.
UpdatedBy(steps, n) ==
    IF n = 0 THEN EmptyMap ELSE Update(UpdatedBy(steps, n - 1), steps[n])

\* The steps are computed once, then applied in turn.
Updates(steps) ==
    CHOOSE d \in {UpdatedBy(done, Len(done)) : done \in {steps}} : TRUE

(***************************************************************************)
(* extract_two_letter_four_number_patterns.                                *)
(***************************************************************************)
\* r'\b[A-Za-z]{2}\d{4}\b'
two_letter_four_number == <<<<WB, Rep(Letters, 2, 2), Rep(Digits, 4, 4), WB>>>>

\* sorted(list(set(matches))): ascending in Python's str order
RECURSIVE sorted_strings(_)
sorted_strings(set) ==
    With(set, LAMBDA rest :
        IF rest = {} THEN <<>>
        ELSE With(CHOOSE x \in rest : \A y \in rest \ {x} : StrLess(x, y),
                  LAMBDA a : <<a>> \o sorted_strings(rest \ {a})))

Valves == {<<"P","V">>, <<"C","V">>, <<"F","V">>, <<"L","V">>, <<"T","V">>}
Instruments == {<<"P","I">>, <<"F","I">>, <<"T","I">>, <<"L","I">>, <<"A","I">>}
Transmitters == {<<"P","T">>, <<"F","T">>, <<"T","T">>, <<"L","T">>, <<"A","T">>}
Controllers == {<<"P","C">>, <<"F","C">>, <<"T","C">>, <<"L","C">>, <<"A","C">>}

\* Every match filed under Other Equipment.
category_of_always_other(match) == <<"O","t","h","e","r"," ","E","q","u","i","p","m","e","n","t">>

\* The if/elif chain on prefix = match[:2].upper()
category_of(match) ==
    LET prefix == Upper(SubSeq(match, 1, 2))
    IN  IF prefix \in Valves THEN <<"V","a","l","v","e","s">>
        ELSE IF prefix \in Instruments THEN <<"I","n","s","t","r","u","m","e","n","t","s">>
        ELSE IF prefix \in Transmitters THEN <<"T","r","a","n","s","m","i","t","t","e","r","s">>
        ELSE IF prefix \in Controllers THEN <<"C","o","n","t","r","o","l","l","e","r","s">>
        ELSE <<"O","t","h","e","r"," ","E","q","u","i","p","m","e","n","t">>

\* categorized[category]: the matches of the category, in sorted order
categorized(unique_matches, category) ==
    SelectSeq(unique_matches, LAMBDA m : category_of(m) = category)

\* f'{category} ({len(items)})'
category_key(category, items) ==
    category \o <<" ","(">> \o Str(Len(items)) \o <<")">>

category_fields(unique_matches) ==
    LET used == {category_of(unique_matches[i]) : i \in DOMAIN unique_matches}
        keys == {category_key(c, categorized(unique_matches, c)) : c \in used}
    IN  [k \in keys |->
            LET c == CHOOSE x \in used :
                         category_key(x, categorized(unique_matches, x)) = k
            IN  Join(categorized(unique_matches, c), <<","," ">>)]

PatternsKey == 
    <<"T","w","o"," ","L","e","t","t","e","r"," ","F","o","u","r"," ","N","u","m","b","e","r"," ","P","a","t","t","e","r","n","s">>
PatternCountKey == <<"P","a","t","t","e","r","n"," ","C","o","u","n","t">>

\* Duplicates kept: the matches sorted as a list.
RECURSIVE sorted_list(_)
sorted_list(lst) ==
    IF lst = <<>> THEN <<>>
    ELSE LET i == CHOOSE j \in DOMAIN lst : \A k \in DOMAIN lst : ~StrLess(lst[k], lst[j])
         IN  <<lst[i]>> \o sorted_list([j \in 1..(Len(lst) - 1) |->
                                           IF j < i THEN lst[j] ELSE lst[j + 1]])

unique_sorted_keeps_duplicates(matches) == sorted_list(matches)

\* sorted(list(set(matches)))
unique_sorted(matches) == sorted_strings(Range(matches))

extract_two_letter_four_number_patterns(text) ==
    LET found == FindAll(text, two_letter_four_number, 1)
        matches == [i \in DOMAIN found |-> Matched(text, found[i])]
        unique_matches == unique_sorted(matches)
    IN  IF matches = <<>> THEN EmptyMap
        ELSE (PatternsKey :> Join(unique_matches, <<","," ">>))
                 @@ (PatternCountKey :> Str(Len(unique_matches)))
                 @@ category_fields(unique_matches)

(***************************************************************************)
(* extract_notes_by_pattern and extract_enhanced_notes.                    *)
(***************************************************************************)
\* NOTES?:? under re.IGNORECASE
notes_tail == Literal(<<"N","O","T","E">>, TRUE) \o <<Opt({"S", "s"}), Opt({":"})>>

\* r'NOTES?:?'
notes_pattern == <<notes_tail>>

\* r'<WORD>\s+NOTES?:?'
titled_notes_pattern(word) ==
    <<Literal(word, TRUE) \o <<Plus(Whitespace)>> \o notes_tail>>

note_patterns ==
    <<titled_notes_pattern(<<"G","E","N","E","R","A","L">>),
      notes_pattern,
      titled_notes_pattern(<<"D","E","S","I","G","N">>),
      titled_notes_pattern(<<"P","R","O","C","E","S","S">>),
      titled_notes_pattern(<<"O","P","E","R","A","T","I","N","G">>),
      titled_notes_pattern(<<"S","A","F","E","T","Y">>),
      titled_notes_pattern(<<"M","A","I","N","T","E","N","A","N","C","E">>)>>

\* r'^[A-Z\s]+:$' and r'^\d+\.\s*[A-Z]'
all_caps_header == <<<<Plus(UpperLetters \cup Whitespace), One({":"}), EndOfString>>>>
numbered_section == <<<<Plus(Digits), One({"."}), Star(Whitespace), One(UpperLetters)>>>>

section_words == 
    {<<"S","P","E","C","I","F","I","C","A","T","I","O","N","S">>,
     <<"E","Q","U","I","P","M","E","N","T"," ","L","I","S","T">>,
     <<"L","E","G","E","N","D">>,
     <<"S","Y","M","B","O","L","S">>}

\* "Stop if we hit another major section"
is_major_section(line_stripped) ==
    /\ line_stripped # <<>>
    /\ \/ MatchesAtStart(line_stripped, all_caps_header)
       \/ MatchesAtStart(line_stripped, numbered_section)
       \/ \E w \in section_words : Contains(Upper(line_stripped), w)

\* The loop of extract_notes_by_pattern from line i on; `break` ends it.
RECURSIVE notes_loop(_, _, _, _, _)
notes_loop(lines, pattern, i, capturing, notes_content) ==
    IF i > Len(lines) THEN notes_content
    ELSE LET line == lines[i]
             line_stripped == Strip(line)
             match == Search(line, pattern, 1)
             after_pattern == Strip(SubSeq(line, match.stop, Len(line)))
         IN  IF match.start # 0
             THEN notes_loop(lines, pattern, i + 1, TRUE,
                      IF after_pattern # <<>>
                      THEN Append(notes_content, after_pattern)
                      ELSE notes_content)
             ELSE IF ~capturing
             THEN notes_loop(lines, pattern, i + 1, FALSE, notes_content)
             ELSE IF is_major_section(line_stripped)
             THEN notes_content
             ELSE notes_loop(lines, pattern, i + 1, TRUE,
                      IF line_stripped # <<>>
                      THEN Append(notes_content, line_stripped)
                      ELSE IF notes_content # <<>>
                      THEN Append(notes_content, <<>>)
                      ELSE notes_content)

\* while notes_content and not notes_content[-1]: notes_content.pop()
RECURSIVE drop_trailing_empty(_)
drop_trailing_empty(notes_content) ==
    IF notes_content # <<>> /\ notes_content[Len(notes_content)] = <<>>
    THEN drop_trailing_empty(SubSeq(notes_content, 1, Len(notes_content) - 1))
    ELSE notes_content

NewLine == <<"\n">>

extract_notes_by_pattern(text, pattern) ==
    Join(drop_trailing_empty(notes_loop(Split(text, "\n"), pattern, 1, FALSE, <<>>)),
         NewLine)

\* r'^\d+\.\s+.+' and r'^[•\-\*]\s+.+'
numbered_note == <<<<Plus(Digits), One({"."}), Plus(Whitespace), DotPlus>>>>
bullet_note == <<<<One({Bullet, "-", "*"}), Plus(Whitespace), DotPlus>>>>

stripped_lines_matching(text, pattern) ==
    LET lines == Split(text, "\n")
        stripped == [i \in DOMAIN lines |-> Strip(lines[i])]
    IN  Join(SelectSeq(stripped, LAMBDA l : MatchesAtStart(l, pattern)), NewLine)

extract_numbered_notes(text) == stripped_lines_matching(text, numbered_note)

extract_bullet_notes(text) == stripped_lines_matching(text, bullet_note)

\* section_name.group().replace(':', '').strip().title()
clean_name(text, pattern) ==
    Title(Strip(RemoveColons(Matched(text, Search(text, pattern, 1)))))

\* The loop over note_patterns from pattern k on.
RECURSIVE section_notes(_, _, _)
section_notes(text, k, notes_data) ==
    IF k > Len(note_patterns) THEN notes_data
    ELSE LET notes_content == extract_notes_by_pattern(text, note_patterns[k])
         IN  section_notes(text, k + 1,
                 IF notes_content # <<>>
                 THEN Put(notes_data, clean_name(text, note_patterns[k]), notes_content)
                 ELSE notes_data)

NumberedNotesKey == <<"N","u","m","b","e","r","e","d"," ","N","o","t","e","s">>
BulletNotesKey == <<"B","u","l","l","e","t"," ","P","o","i","n","t"," ","N","o","t","e","s">>

extract_enhanced_notes(text) ==
    LET sections == section_notes(text, 1, EmptyMap)
        numbered_notes == extract_numbered_notes(text)
        bullet_notes == extract_bullet_notes(text)
        with_numbered == IF numbered_notes # <<>>
                         THEN Put(sections, NumberedNotesKey, numbered_notes)
                         ELSE sections
    IN  IF bullet_notes # <<>>
        THEN Put(with_numbered, BulletNotesKey, bullet_notes)
        ELSE with_numbered

(***************************************************************************)
(* extract_notes_section, the older single-section extractor.              *)
(***************************************************************************)
section_starts == 
    {<<"N","O","T","E","S",":">>,
     <<"G","E","N","E","R","A","L"," ","N","O","T","E","S",":">>,
     <<"S","P","E","C","I","F","I","C","A","T","I","O","N","S",":">>,
     <<"E","Q","U","I","P","M","E","N","T",":">>,
     <<"S","E","R","V","I","C","E",":">>}

\* line_upper.isupper(): a cased character, none of them lower case
IsUpper(s) ==
    /\ \E i \in DOMAIN s : s[i] \in Letters
    /\ \A i \in DOMAIN s : s[i] \notin LowerLetters

is_section_header(line_upper) ==
    \/ \E p \in section_starts : StartsWith(line_upper, p)
    \/ (Len(line_upper) > 0 /\ IsUpper(line_upper) /\ Contains(line_upper, <<":">>))

RECURSIVE section_loop(_, _, _, _, _)
section_loop(lines, section_name, i, capturing, notes_content) ==
    IF i > Len(lines) THEN notes_content
    ELSE LET line == lines[i]
             line_upper == Strip(Upper(line))
             named == Contains(line_upper, Upper(section_name))
         IN  IF named /\ ~capturing
             THEN section_loop(lines, section_name, i + 1, TRUE,
                      IF Len(Strip(line)) > Len(section_name)
                      THEN Append(notes_content, Strip(line))
                      ELSE notes_content)
             ELSE IF capturing /\ is_section_header(line_upper) /\ ~named
             THEN notes_content
             ELSE section_loop(lines, section_name, i + 1, capturing,
                      IF capturing /\ Strip(line) # <<>>
                      THEN Append(notes_content, Strip(line))
                      ELSE notes_content)

extract_notes_section(text, section_name) ==
    Join(section_loop(Split(text, "\n"), section_name, 1, FALSE, <<>>), NewLine)

(***************************************************************************)
(* extract_equipment_info, extract_service_info and analyze_pid_content.   *)
(***************************************************************************)
\* list(set(x)) for a set of str: the order is that of the hashes, which the
\* interpreter seeds anew in every process; two of the orders a process can
\* have.
HashSeeds == {"ascending", "descending"}

Reversed(s) == [i \in DOMAIN s |-> s[Len(s) + 1 - i]]

list_of_set(set, seed) ==
    IF seed = "ascending" THEN sorted_strings(set) ELSE Reversed(sorted_strings(set))

\* lst[:n]
FirstN(lst, n) == SubSeq(lst, 1, IF Len(lst) < n THEN Len(lst) ELSE n)

\* The matched strings of re.findall.
AllMatched(text, pattern) ==
    LET found == FindAll(text, pattern, 1)
    IN  [i \in DOMAIN found |-> Matched(text, found[i])]

CommaSpace == <<",", " ">>

\* r'\b[A-Z]{1,3}[-]?\d{3,5}[A-Z]?\b'
equipment_pattern ==
    <<<<WB, Rep(UpperLetters, 1, 3), Opt({"-"}), Rep(Digits, 3, 5),
        Opt(UpperLetters), WB>>>>

common_equipment ==
    <<<<"p","u","m","p">>,
      <<"t","a","n","k">>,
      <<"v","a","l","v","e">>,
      <<"h","e","a","t"," ","e","x","c","h","a","n","g","e","r">>,
      <<"r","e","a","c","t","o","r">>,
      <<"c","o","m","p","r","e","s","s","o","r">>,
      <<"s","e","p","a","r","a","t","o","r">>,
      <<"f","i","l","t","e","r">>>>

\* The entries of words that occur in the lower-cased text, title-cased.
found_titles(words, text) ==
    LET hits == SelectSeq(words, LAMBDA w : Contains(Lower(text), Lower(w)))
    IN  [i \in DOMAIN hits |-> Title(hits[i])]

EquipmentTagsKey == <<"E","q","u","i","p","m","e","n","t"," ","T","a","g","s">>
EquipmentCountKey == <<"E","q","u","i","p","m","e","n","t"," ","C","o","u","n","t">>
EquipmentTypesKey == <<"E","q","u","i","p","m","e","n","t"," ","T","y","p","e","s">>

extract_equipment_info(text, seed) ==
    LET equipment_tags == AllMatched(text, equipment_pattern)
        equipment_types == found_titles(common_equipment, text)
        tags == IF equipment_tags # <<>>
                THEN (EquipmentTagsKey :>
                          Join(list_of_set(Range(equipment_tags), seed), CommaSpace))
                     @@ (EquipmentCountKey :>
                          Str(Cardinality(Range(equipment_tags))))
                ELSE EmptyMap
    IN  IF equipment_types # <<>>
        THEN Put(tags, EquipmentTypesKey,
                 Join(list_of_set(Range(equipment_types), seed), CommaSpace))
        ELSE tags

service_keywords ==
    <<<<"c","o","o","l","i","n","g"," ","w","a","t","e","r">>,
      <<"s","t","e","a","m">>,
      <<"n","i","t","r","o","g","e","n">>,
      <<"c","o","m","p","r","e","s","s","e","d"," ","a","i","r">>,
      <<"i","n","s","t","r","u","m","e","n","t"," ","a","i","r">>,
      <<"n","a","t","u","r","a","l"," ","g","a","s">>,
      <<"f","u","e","l"," ","g","a","s">>,
      <<"e","l","e","c","t","r","i","c","a","l">>,
      <<"h","y","d","r","a","u","l","i","c">>,
      <<"p","n","e","u","m","a","t","i","c">>>>

utility_codes ==
    <<<<"C","W">>,
      <<"S","W">>,
      <<"I","A">>,
      <<"N","A">>,
      <<"N","G">>,
      <<"F","G">>,
      <<"S","T","M">>>>

\* r'\b(CW|SW|IA|NA|NG|FG|STM)\b'
utility_pattern ==
    [i \in DOMAIN utility_codes |-> <<WB>> \o Literal(utility_codes[i], FALSE) \o <<WB>>]

ServicesKey == <<"S","e","r","v","i","c","e","s">>
UtilityCodesKey == <<"U","t","i","l","i","t","y"," ","C","o","d","e","s">>

extract_service_info(text, seed) ==
    LET found_services == found_titles(service_keywords, text)
        utilities == AllMatched(text, utility_pattern)
        services == IF found_services # <<>>
                    THEN (ServicesKey :>
                              Join(list_of_set(Range(found_services), seed), CommaSpace))
                    ELSE EmptyMap
    IN  IF utilities # <<>>
        THEN Put(services, UtilityCodesKey,
                 Join(list_of_set(Range(utilities), seed), CommaSpace))
        ELSE services

\* The fallback taken whatever extract_enhanced_notes returned.
fallback_needed_always(notes_data) == TRUE

\* if not notes_data:
fallback_needed(notes_data) == notes_data = EmptyMap

GeneralNotesName == <<"G","E","N","E","R","A","L"," ","N","O","T","E","S">>
NotesName == <<"N","O","T","E","S">>

\* The two extract_notes_section calls of the fallback.
fallback_notes(text) ==
    LET general_notes == extract_notes_section(text, GeneralNotesName)
        notes == extract_notes_section(text, NotesName)
        general == IF general_notes # <<>>
                   THEN (GeneralNotesName :> general_notes) ELSE EmptyMap
    IN  IF notes # <<>> THEN Put(general, NotesName, notes) ELSE general

title_keywords == 
    {<<"d","r","a","w","i","n","g">>,
     <<"t","i","t","l","e">>,
     <<"d","i","a","g","r","a","m">>,
     <<"p","r","o","c","e","s","s">>}

title_scan_lines == 10

DocumentTitleKey == <<"D","o","c","u","m","e","n","t"," ","T","i","t","l","e">>

\* for line in lines[:10]: the first line with a keyword and more than five
\* characters once stripped
document_title(lines) ==
    LET scanned == FirstN(lines, title_scan_lines)
        long_enough == 5
        titles == {i \in DOMAIN scanned :
                      /\ \E k \in title_keywords : Contains(Lower(scanned[i]), k)
                      /\ Len(Strip(scanned[i])) > long_enough}
    IN  IF titles = {} THEN EmptyMap
        ELSE DocumentTitleKey :>
                 Strip(scanned[CHOOSE i \in titles : \A j \in titles : i <= j])

Rev == <<"r","e","v">>
RevisionKey == <<"R","e","v","i","s","i","o","n">>

\* The first line with "rev"; in it the word after the first word with
\* "rev" that has a word after it.
revision(lines) ==
    LET rev_lines == {i \in DOMAIN lines : Contains(Lower(lines[i]), Rev)}
    IN  IF rev_lines = {} THEN EmptyMap
        ELSE LET words == SplitWords(lines[CHOOSE i \in rev_lines :
                                               \A j \in rev_lines : i <= j])
                 revs == {i \in DOMAIN words :
                             Contains(Lower(words[i]), Rev) /\ i + 1 <= Len(words)}
             IN  IF revs = {} THEN EmptyMap
                 ELSE RevisionKey :>
                          words[(CHOOSE i \in revs : \A j \in revs : i <= j) + 1]

DateSeparators == {"/", "-"}

\* r'\b\d{1,2}[/-]\d{1,2}[/-]\d{2,4}\b|\b\d{4}[/-]\d{1,2}[/-]\d{1,2}\b'
date_pattern ==
    <<<<WB, Rep(Digits, 1, 2), One(DateSeparators), Rep(Digits, 1, 2),
        One(DateSeparators), Rep(Digits, 2, 4), WB>>,
      <<WB, Rep(Digits, 4, 4), One(DateSeparators), Rep(Digits, 1, 2),
        One(DateSeparators), Rep(Digits, 1, 2), WB>>>>

DocumentDateKey == <<"D","o","c","u","m","e","n","t"," ","D","a","t","e">>

document_date(text) ==
    LET dates == AllMatched(text, date_pattern)
    IN  IF dates # <<>> THEN DocumentDateKey :> dates[1] ELSE EmptyMap

sample_size == 5

SampleEquipmentTagsKey == 
    <<"S","a","m","p","l","e"," ","E","q","u","i","p","m","e","n","t"," ","T","a","g","s">>

equipment_sample(text, seed) ==
    LET equipment_tags == AllMatched(text, equipment_pattern)
    IN  IF equipment_tags # <<>>
        THEN (EquipmentCountKey :> Str(Cardinality(Range(equipment_tags))))
             @@ (SampleEquipmentTagsKey :>
                  Join(FirstN(list_of_set(Range(equipment_tags), seed), sample_size),
                       CommaSpace))
        ELSE EmptyMap

\* \d+\.?\d*\s* at the head of the pressure and temperature patterns
reading == <<WB, Plus(Digits), Opt({"."}), Star(Digits), Star(Whitespace)>>

pressure_units == <<<<"p","s","i">>, <<"b","a","r">>, <<"k","p","a">>, <<"m","p","a">>>>

\* r'\b\d+\.?\d*\s*(psi|bar|kpa|mpa)\b'
pressure_pattern ==
    [i \in DOMAIN pressure_units |->
        reading \o Literal(pressure_units[i], FALSE) \o <<WB>>]

ratings_shown == 3

PressureKey == 
    <<"P","r","e","s","s","u","r","e"," ","R","a","t","i","n","g","s"," ","F","o","u","n","d">>

\* findall returns the group: the unit of each match
pressure_ratings(text_lower) ==
    LET found == FindAll(text_lower, pressure_pattern, 1)
        pressures == [i \in DOMAIN found |-> pressure_units[found[i].alt]]
    IN  IF pressures # <<>>
        THEN PressureKey :> Join(FirstN(pressures, ratings_shown), CommaSpace)
        ELSE EmptyMap

\* r'\b\d+\.?\d*\s*°?[cf]\b|\b\d+\.?\d*\s*deg\s*[cf]\b'
temp_pattern ==
    <<reading \o <<Opt({DegreeSign}), One({"c", "f"}), WB>>,
      reading \o Literal(<<"d","e","g">>, FALSE)
              \o <<Star(Whitespace), One({"c", "f"}), WB>>>>

TemperatureKey == 
    <<"T","e","m","p","e","r","a","t","u","r","e"," ","R","a","t","i","n","g","s"," ","F","o","u","n","d">>

temperature_ratings(text_lower) ==
    LET temperatures == AllMatched(text_lower, temp_pattern)
    IN  IF temperatures # <<>>
        THEN TemperatureKey :> Join(FirstN(temperatures, ratings_shown), CommaSpace)
        ELSE EmptyMap

TablesFoundKey == <<"T","a","b","l","e","s"," ","F","o","u","n","d">>
TableHeadersKey == <<"T","a","b","l","e"," ","H","e","a","d","e","r","s">>

\* The guard `if tables:` left out.
table_fields_unguarded(tables) ==
    TablesFoundKey :> Str(Len(tables))

\* A table is a list of rows, a row a list of cells; an empty cell is None
\* or ''.
table_fields(tables) ==
    IF tables = <<>> THEN EmptyMap
    ELSE LET found == TablesFoundKey :> Str(Len(tables))
         IN  IF tables[1] # <<>>
             THEN Put(found, TableHeadersKey,
                      Join(SelectSeq(tables[1][1], LAMBDA h : h # <<>>), CommaSpace))
             ELSE found

DocumentTypeKey == <<"D","o","c","u","m","e","n","t"," ","T","y","p","e">>
StatusKey == <<"S","t","a","t","u","s">>
ProcessingDateKey == <<"P","r","o","c","e","s","s","i","n","g"," ","D","a","t","e">>
DefaultDocumentType == 
    <<"P","r","o","c","e","s","s"," ","&"," ","I","n","s","t","r","u","m","e","n","t","a","t","i","o","n"," ","D","i","a","g","r","a","m">>
Uploaded == <<"U","p","l","o","a","d","e","d">>

\* `now` is datetime.now().strftime(...), seed the hash seed of the process.
analyze_pid_content(text, tables, seed, now) ==
    LET text_lower == Lower(text)
        lines == Split(text, "\n")
        notes_data == extract_enhanced_notes(text)
    IN  Updates(<<extract_two_letter_four_number_patterns(text),
                  notes_data,
                  IF fallback_needed(notes_data) THEN fallback_notes(text) ELSE EmptyMap,
                  extract_equipment_info(text, seed),
                  extract_service_info(text, seed),
                  document_title(lines),
                  revision(lines),
                  document_date(text),
                  equipment_sample(text, seed),
                  pressure_ratings(text_lower),
                  temperature_ratings(text_lower),
                  table_fields(tables),
                  (DocumentTypeKey :> DefaultDocumentType)
                      @@ (StatusKey :> Uploaded)
                      @@ (ProcessingDateKey :> now)>>)

(***************************************************************************)
(* backend/datasheet_splitter.py.  A PDF is [readable, pages]: pages is    *)
(* the list of the texts page.get_text() returns, and fitz.open raises on  *)
(* bytes that are not readable.  Page numbers count from 0 as in the code. *)
(***************************************************************************)
NameChars == Letters \cup Digits \cup {"-"}

\* (?:number|no\.?): after `word`, then :\s*([A-Z0-9\-]+), under (?i)
numbered(word) ==
    <<Literal(word, TRUE) \o <<Star(Whitespace)>> \o Literal(<<"n","u","m","b","e","r">>, TRUE)
          \o <<One({":"}), Star(Whitespace), Plus(NameChars)>>,
      Literal(word, TRUE) \o <<Star(Whitespace)>> \o Literal(<<"n","o">>, TRUE)
          \o <<Opt({"."}), One({":"}), Star(Whitespace), Plus(NameChars)>>>>

\* r'(?i)data\s*sheet' and the four patterns after it
titled(first, second) ==
    <<Literal(first, TRUE) \o <<Star(Whitespace)>> \o Literal(second, TRUE)>>

title_patterns ==
    <<titled(<<"d","a","t","a">>, <<"s","h","e","e","t">>),
      titled(<<"s","p","e","c","i","f","i","c","a","t","i","o","n">>, <<"s","h","e","e","t">>),
      titled(<<"t","e","c","h","n","i","c","a","l">>, <<"d","a","t","a">>),
      titled(<<"p","r","o","d","u","c","t">>, <<"d","a","t","a">>),
      titled(<<"e","q","u","i","p","m","e","n","t">>, <<"d","a","t","a">>)>>

equipment_patterns ==
    <<numbered(<<"m","o","d","e","l">>),
      numbered(<<"p","a","r","t">>),
      numbered(<<"s","e","r","i","a","l">>),
      numbered(<<"t","a","g">>)>>

ManufacturerChars == Letters \cup Digits \cup Whitespace \cup {"&", ",", ".", "-"}

\* r'(?i)manufacturer:\s*([A-Za-z0-9\s&,.-]+?)(?:\n|$)'
manufacturer_pattern ==
    LET head == Literal(<<"m","a","n","u","f","a","c","t","u","r","e","r">>, TRUE)
                    \o <<One({":"}), Star(Whitespace), Plus(ManufacturerChars)>>
    IN  <<head \o <<One({"\n"})>>, head \o <<EndOfString>>>>

\* match.group(1) of an equipment pattern: the run of name characters that
\* ends the match (the character before the group is ":" or white space).
RECURSIVE group_start(_, _)
group_start(text, stop) ==
    IF stop > 1 /\ text[stop - 1] \in NameChars THEN group_start(text, stop - 1) ELSE stop

equipment_group(text, m) == SubSeq(text, group_start(text, m.stop), m.stop - 1)

HasDatasheetTitleKey == "has_datasheet_title"
EquipmentNameKey == "equipment_name"
ManufacturerKey == "manufacturer"

\* The first equipment pattern, in the order of the list, found in the text.
first_equipment_match(text) ==
    With([p \in DOMAIN equipment_patterns |-> Search(text, equipment_patterns[p], 1)],
         LAMBDA found :
             With({p \in DOMAIN found : found[p].start # 0},
                  LAMBDA hits :
                      IF hits = {} THEN NoMatch
                      ELSE found[CHOOSE p \in hits : \A q \in hits : p <= q]))

\* The dict _find_datasheet_indicators returns.  No caller reads the
\* manufacturer text, only whether the dict is empty: the model records that
\* the key is set.
find_datasheet_indicators(text) ==
    LET title == IF \E p \in DOMAIN title_patterns :
                        Search(text, title_patterns[p], 1).start # 0
                 THEN HasDatasheetTitleKey :> TRUE ELSE EmptyMap
    IN  With(first_equipment_match(text),
             LAMBDA match :
                 With(Search(text, manufacturer_pattern, 1),
                      LAMBDA manufacturer_match :
                          (IF manufacturer_match.start # 0
                           THEN ManufacturerKey :> TRUE ELSE EmptyMap)
                          @@ (IF match.start # 0
                              THEN EquipmentNameKey :> equipment_group(text, match)
                              ELSE EmptyMap)
                          @@ title))

\* current_datasheet_start = None
NoPage == -1

EquipmentPrefix == <<"E","q","u","i","p","m","e","n","t","_">>
DatasheetPagePrefix == <<"D","a","t","a","s","h","e","e","t","_","P","a","g","e","_">>
Datasheet1 == <<"D","a","t","a","s","h","e","e","t","_","1">>

\* (start_page, end_page, equipment_name)
Span(start_page, end_page, equipment_name) ==
    [start_page |-> start_page, end_page |-> end_page,
     equipment_name |-> equipment_name]

\* current_equipment or f"Equipment_{len(datasheets) + 1}"
equipment_or_default(current_equipment, datasheets) ==
    IF current_equipment # <<>> THEN current_equipment
    ELSE EquipmentPrefix \o Str(Len(datasheets) + 1)

\* datasheets.append((current_datasheet_start, end_page, ...)) when a
\* datasheet is in progress
close_current(st, end_page) ==
    IF st.current_datasheet_start # NoPage
    THEN Append(st.datasheets,
                Span(st.current_datasheet_start, end_page,
                     equipment_or_default(st.current_equipment, st.datasheets)))
    ELSE st.datasheets

\* The span in progress closed on the indicator page itself.
previous_page_is_same(page_num) == page_num

\* page_num - 1
previous_page(page_num) == page_num - 1

\* One turn of `for page_num in range(len(pdf_doc))`.
detect_step(st, page_num, text) ==
    With(find_datasheet_indicators(text),
         LAMBDA datasheet_indicators :
             IF datasheet_indicators # EmptyMap
             THEN With(close_current(st, previous_page(page_num)),
                       LAMBDA closed :
                           [datasheets |-> closed,
                            current_datasheet_start |-> page_num,
                            current_equipment |->
                                IF EquipmentNameKey \in DOMAIN datasheet_indicators
                                THEN datasheet_indicators[EquipmentNameKey]
                                ELSE EquipmentPrefix \o Str(Len(closed) + 1)])
             ELSE st)

RECURSIVE detect_loop(_, _, _)
detect_loop(st, pages, page_num) ==
    IF page_num >= Len(pages) THEN st
    ELSE With(detect_step(st, page_num, pages[page_num + 1]),
              LAMBDA next : detect_loop(next, pages, page_num + 1))

\* Every page its own span, and "Datasheet_1" alone when fitz.open raises.
split_by_pages(pdf) ==
    IF pdf.readable
    THEN [i \in 1..Len(pdf.pages) |->
             Span(i - 1, i - 1, DatasheetPagePrefix \o Str(i))]
    ELSE <<Span(0, 0, Datasheet1)>>

\* The fallback never taken.
no_datasheets_never(datasheets) == FALSE

\* if not datasheets:
no_datasheets(datasheets) == datasheets = <<>>

detect_datasheet_pages(pdf) ==
    IF pdf.readable
    THEN With(detect_loop([datasheets |-> <<>>, current_datasheet_start |-> NoPage,
                           current_equipment |-> <<>>], pdf.pages, 0),
              LAMBDA st :
                  With(close_current(st, Len(pdf.pages) - 1),
                       LAMBDA datasheets :
                           IF no_datasheets(datasheets) THEN split_by_pages(pdf)
                           ELSE datasheets))
    ELSE split_by_pages(pdf)

\* f"\n--- Page {page_num + 1} ---\n{page_text}"
page_block(page_num, page_text) ==
    <<"\n","-","-","-"," ","P","a","g","e"," ">> \o Str(page_num + 1)
        \o <<" ","-","-","-","\n">> \o page_text

RECURSIVE pages_text(_, _, _)
pages_text(pages, page_num, end_page) ==
    IF page_num > end_page THEN <<>>
    ELSE (IF page_num < Len(pages)
          THEN page_block(page_num, pages[page_num + 1]) ELSE <<>>)
         \o pages_text(pages, page_num + 1, end_page)

\* The text of the pages start_page..end_page; empty when fitz.open raises.
\* Images, tables and metadata are left out: the pages of the model have
\* none.
extract_datasheet_content(pdf, start_page, end_page) ==
    IF pdf.readable THEN [text |-> pages_text(pdf.pages, start_page, end_page)]
    ELSE [text |-> <<>>]

\* datetime.now().strftime('%Y%m%d_%H%M%S') at second `now` of the minute
\* the model runs in.
StampMinute == <<"2","0","2","5","0","1","0","1","_","0","0","0","0">>

strftime(now) ==
    StampMinute \o <<DigitChars[(now \div 10) + 1], DigitChars[(now % 10) + 1]>>

Underscore == <<"_">>

\* f"{document_id}_{equipment_name}_{datetime.now().strftime(...)}"
datasheet_id_of(document_id, equipment_name, now) ==
    document_id \o Underscore \o equipment_name \o Underscore \o strftime(now)

NoId == <<>>

\* save_individual_datasheet: dir is the datasheets directory, a map from
\* id to the record of <id>.json.  open(..., 'w') replaces a file of the
\* same name; when it raises, "" is returned and nothing is written.
\* parsed_fields and chat_history are left out of the record.
save_individual_datasheet(dir, content, equipment_name, document_id, now, writable) ==
    With(datasheet_id_of(document_id, equipment_name, now),
         LAMBDA datasheet_id :
             IF writable
             THEN [dir |-> Put(dir, datasheet_id,
                               [id |-> datasheet_id,
                                equipment_name |-> equipment_name,
                                document_id |-> document_id,
                                created_at |-> now,
                                content |-> content]),
                   datasheet_id |-> datasheet_id]
             ELSE [dir |-> dir, datasheet_id |-> NoId])

PdfSuffix == <<".","p","d","f">>

\* str.replace(old, ''): every occurrence of old, from the left, removed
RECURSIVE Removed(_, _)
Removed(s, old) ==
    IF Len(s) < Len(old) THEN s
    ELSE IF SubSeq(s, 1, Len(old)) = old
    THEN Removed(SubSeq(s, Len(old) + 1, Len(s)), old)
    ELSE <<s[1]>> \o Removed(Tail(s), old)

\* f"doc_{datetime.now().strftime(...)}_{filename.replace('.pdf', '')}"
document_id_of(filename, now) ==
    <<"d","o","c","_">> \o strftime(now) \o Underscore \o Removed(filename, PdfSuffix)

empty_index == [documents |-> EmptyMap, datasheets |-> EmptyMap]

\* load_datasheet_index: the stored index, or an empty one
load_datasheet_index(file) == IF file.exists THEN file.content ELSE empty_index

\* f"{start_page + 1}-{end_page + 1}"
pages_label(span) == Str(span.start_page + 1) \o <<"-">> \o Str(span.end_page + 1)

\* One turn of `for start_page, end_page, equipment_name in datasheets`;
\* now is what datetime.now() reads while the datasheet is saved.  The
\* fields_found count of datasheet_info is left out.
process_span(st, pdf, span, document_id, now, writable) ==
    With(save_individual_datasheet(
             st.dir,
             extract_datasheet_content(pdf, span.start_page, span.end_page),
             span.equipment_name, document_id, now, writable),
         LAMBDA saved :
             IF saved.datasheet_id # NoId
             THEN [dir |-> saved.dir,
                   processed_datasheets |->
                       Append(st.processed_datasheets,
                              [id |-> saved.datasheet_id,
                               equipment_name |-> span.equipment_name,
                               pages |-> pages_label(span)]),
                   index |-> [st.index EXCEPT !.datasheets =
                                 Put(@, saved.datasheet_id,
                                     [document_id |-> document_id,
                                      equipment_name |-> span.equipment_name,
                                      pages |-> pages_label(span),
                                      created_at |-> now])]]
             ELSE [st EXCEPT !.dir = saved.dir])

RECURSIVE process_spans(_, _, _, _, _, _, _)
process_spans(st, pdf, datasheets, n, document_id, times, writable) ==
    IF n > Len(datasheets) THEN st
    ELSE With(process_span(st, pdf, datasheets[n], document_id, times[n], writable),
              LAMBDA next :
                  process_spans(next, pdf, datasheets, n + 1, document_id, times,
                                writable))

ids_of(processed_datasheets) ==
    [i \in DOMAIN processed_datasheets |-> processed_datasheets[i].id]

NoDocument == <<>>

\* process_document.  sp is [clock, file, dir]: the second datetime.now()
\* reads when the call starts, datasheet_index.json and the datasheets
\* directory.  times[n] is the second read while span n is saved and
\* `finished` the second read once the loop is over.
process_document(sp, pdf, filename, times, finished, writable) ==
    LET document_id == document_id_of(filename, sp.clock)
    IN  With(detect_datasheet_pages(pdf),
             LAMBDA datasheets :
                 IF datasheets = <<>>
                 THEN [file |-> sp.file, dir |-> sp.dir, detected |-> datasheets,
                       result |-> [status |-> "error", document_id |-> NoDocument,
                                   datasheets |-> <<>>]]
                 ELSE With(process_spans(
                               [dir |-> sp.dir, processed_datasheets |-> <<>>,
                                index |-> load_datasheet_index(sp.file)],
                               pdf, datasheets, 1, document_id, times, writable),
                           LAMBDA st :
                               [file |-> [exists |-> TRUE,
                                          content |->
                                              [st.index EXCEPT !.documents =
                                                  Put(@, document_id,
                                                      [filename |-> filename,
                                                       processed_at |-> finished,
                                                       total_datasheets |->
                                                           Len(st.processed_datasheets),
                                                       datasheet_ids |->
                                                           ids_of(st.processed_datasheets)])]],
                                dir |-> st.dir,
                                detected |-> datasheets,
                                result |-> [status |-> "success",
                                            document_id |-> document_id,
                                            datasheets |-> st.processed_datasheets]]))

(***************************************************************************)
(* Inputs.                                                                 *)
(***************************************************************************)
PT == <<"P","T">>
FV == <<"F","V">>
ABCDEF == <<"A","B","C","D","E","F">>
INVALID == <<"I","N","V","A","L","I","D">>
MixedPt == <<"P","t">>
LowerPt == <<"p","t">>
N1001 == <<"1","0","0","1">>
N3001A == <<"3","0","0","1","A">>
N999 == <<"9","9","9">>
N1001a == <<"1","0","0","1","a">>

\* Tokens of the streams given to extract_possible_tags on its own.
ScanTokens == {PT, FV, ABCDEF, INVALID, MixedPt, LowerPt, N1001, N3001A, N999, N1001a}

\* Tokens of the longer streams, in which acronyms repeat.
CoreTokens == {PT, FV, N1001}

RECURSIVE SeqsUpTo(_, _)
SeqsUpTo(S, n) ==
    IF n = 0 THEN {<<>>}
    ELSE LET shorter == SeqsUpTo(S, n - 1)
         IN  shorter \cup {Append(q, x) : q \in {r \in shorter : Len(r) = n - 1}, x \in S}

\* Uploaded documents, as the token streams read from them.
TokenStreams ==
    {<<>>,
     <<MixedPt, N1001>>,
     <<PT, N1001>>,
     <<FV, N3001A, PT, N1001>>,
     <<PT, N1001, INVALID, N1001, PT, N1001>>}

FileA == <<"a","-","u","-","x">>
FileB == <<"b","-","v">>
FileC == <<"c">>
Filenames == {FileA, FileB, FileC}

\* A vocabulary over the file keys file_1..file_n: each key has a file entry
\* or none, and no instrument list, an empty one or a list of one record.
KeyPath(n) == IF n = 1 THEN FileA ELSE IF n = 2 THEN FileB ELSE FileC

KeyRecords(n) ==
    <<instrument_entry(unit_code_of(KeyPath(n)), full_tag(PT, N1001))>>

Vocabulary(fileKeys, emptyKeys, fullKeys, acronyms, not_tags) ==
    [files |-> [k \in {FileKey(n) : n \in fileKeys} |->
                   file_entry(KeyPath(KeyNumber(k)),
                              unit_code_of(KeyPath(KeyNumber(k))),
                              IF KeyNumber(k) \in fullKeys
                              THEN KeyRecords(KeyNumber(k)) ELSE <<>>)],
     instruments |-> [k \in {FileKey(n) : n \in emptyKeys \cup fullKeys} |->
                        IF KeyNumber(k) \in fullKeys
                        THEN KeyRecords(KeyNumber(k)) ELSE <<>>],
     acronyms_to_types |-> acronyms,
     not_tags |-> not_tags]

Vocabularies(n, acronymMaps, notTagLists) ==
    {Vocabulary(fileKeys, emptyKeys, fullKeys, acronyms, not_tags) :
        fileKeys \in SUBSET (1..n),
        emptyKeys \in SUBSET (1..n),
        fullKeys \in SUBSET (1..n),
        acronyms \in acronymMaps,
        not_tags \in notTagLists}

ScanStreams ==
    SeqsUpTo(ScanTokens, MaxTokens) \cup SeqsUpTo(CoreTokens, MaxTokens + 3)

AcronymMaps == {EmptyMap, PT :> "transmitter"}
NotTagLists == {<<>>, <<PT>>}

\* extracted_data.json before the first call: absent, or any vocabulary
\* over file_1 and file_2.
InitialStores ==
    {[exists |-> FALSE, readable |-> TRUE, content |-> default_data]}
        \cup {[exists |-> TRUE, readable |-> TRUE, content |-> v] :
                 v \in Vocabularies(2, AcronymMaps, NotTagLists)}

NoStore == [exists |-> FALSE, readable |-> TRUE, content |-> default_data]

\* extracted_data.json with bytes json.load rejects; content is the
\* vocabulary the file held before it was damaged.
CorruptStores ==
    {[exists |-> TRUE, readable |-> FALSE, content |-> v] :
        v \in Vocabularies(2, AcronymMaps, NotTagLists)}

\* The two requests of SpecRace and the file each one uploads.
Runs == {"first", "second"}

RunFile == [p \in Runs |-> IF p = "first" THEN FileA ELSE FileB]

IdleRun(p) ==
    [pc |-> "idle", filename |-> RunFile[p], text_list |-> <<>>,
     loaded |-> NoStore, result |-> Result("", <<>>, <<>>, NoKey)]

IdleRace == [run |-> [p \in Runs |-> IdleRun(p)], order |-> <<>>]

IdleDoc == [phase |-> "idle"]

IdleSplitter == [phase |-> "idle"]

\* Words of a drawing's text: tags of the five categories, one tag in three
\* spellings, and a word with a digit too many.
PatternWords ==
    {<<"P","V","1","2","3","4">>, <<"P","I","5","6","7","8">>, <<"P","T","1","0","0","1">>,
     <<"p","t","1","0","0","1">>, <<"P","t","1","0","0","1">>, <<"F","C","3","0","0","3">>,
     <<"Z","Z","0","0","0","1">>, <<"A","B","1","2","3","4","5">>}

Space == <<" ">>

PatternTextOf(words) == Join(words, Space)

\* Lines of a drawing's text around a notes block.
GeneralNotesLine == <<"G","E","N","E","R","A","L"," ","N","O","T","E","S",":">>
SpecificationsLine == <<"S","P","E","C","I","F","I","C","A","T","I","O","N","S",":">>
NoteLines ==
    {GeneralNotesLine, SpecificationsLine, <<>>,
     <<"F","o","o">>, <<" ","B","a","r"," ">>,
     <<"s","e","e"," ","n","o","t","e"," ","2">>,
     <<"1","."," ","C","h","e","c","k">>}

\* GENERAL NOTES: / Foo / Bar / blank / SPECIFICATIONS: / Baz
NotesExample ==
    <<GeneralNotesLine, <<"F","o","o">>, <<"B","a","r">>, <<>>, SpecificationsLine,
      <<"B","a","z">>>>

\* Lines of a document given to analyze_pid_content: plain words, a notes
\* heading, a legend heading, a numbered note with two equipment tags, and a
\* datasheet line with services, equipment types and utility codes.
FooLine == <<"F","o","o">>
NotesLine == <<"N","O","T","E","S",":">>
LegendLine == <<"L","E","G","E","N","D">>
NumberedLine == <<"1","."," ","C","h","e","c","k"," ","P","-","1","0","1"," ","V","-","2","0","2">>
DatasheetLine ==
    <<"d","a","t","a","s","h","e","e","t",":"," ","s","t","e","a","m",","," ","n","i","t","r","o","g","e","n",","," ","p","u","m","p",","," ","t","a","n","k",","," ","C","W",","," ","I","A">>

DocLines == {<<>>, FooLine, NotesLine, LegendLine, NumberedLine, DatasheetLine}

DocTexts == {Join(lines, NewLine) : lines \in SeqsUpTo(DocLines, MaxDocLines)}

\* What pdfplumber found: no table, or one table with a header row.
DocTables == {<<>>, <<<<<<<<"T","a","g">>, <<>>, <<"S","e","r","v","i","c","e">>>>>>>>}

NoteTexts ==
    {Join(lines, NewLine) : lines \in SeqsUpTo(NoteLines, MaxNoteLines) \cup {NotesExample}}

IdleScan ==
    [phase |-> "idle", text_list |-> <<>>, not_tags |-> <<>>, list_tags |-> <<>>,
     full_tag_list |-> <<>>, new_acronyms |-> <<>>, known |-> <<>>]

\* Page texts: no indicator, a title, a model number, a tag number in lower
\* case, a manufacturer.
PlainPage == <<"p","u","m","p">>
TitlePage == <<"D","a","t","a"," ","S","h","e","e","t">>
ModelPage == <<"M","o","d","e","l"," ","N","o",":"," ","X","-","1">>
TagPage == <<"t","a","g"," ","n","o",".",":"," ","p","-","2">>
ManufacturerPage == <<"M","a","n","u","f","a","c","t","u","r","e","r",":"," ","A">>

DetectPages == {PlainPage, TitlePage, ModelPage, TagPage, ManufacturerPage}

Unreadable == [readable |-> FALSE, pages |-> <<>>]

Pdfs(pages, n) ==
    {[readable |-> TRUE, pages |-> p] : p \in SeqsUpTo(pages, n)} \cup {Unreadable}

SplitPages == {PlainPage, TitlePage, ModelPage}

SplitFilenames == {<<"a",".","p","d","f">>, <<"b",".","p","d","f">>}

\* The seconds datetime.now() can read, one reading after the other, from
\* second `from` on.
RECURSIVE Readings(_, _)
Readings(from, n) ==
    IF n = 0 THEN {<<>>}
    ELSE {<<t>> \o later : t \in from..MaxClock, later \in Readings(from, n - 1)}

Ordered(times) == \A i, j \in DOMAIN times : i <= j => times[i] <= times[j]

(***************************************************************************)
(* Spec, SpecDefault: process_pdf_for_tags calls, one at a time, on the    *)
(* vocabulary file.                                                        *)
(***************************************************************************)
Init ==
    /\ store \in InitialStores
    /\ log = <<>>
    /\ splitter = IdleSplitter
    /\ calls = <<>>
    /\ data = default_data
    /\ scan = IdleScan
    /\ race = IdleRace
    /\ doc = IdleDoc

InitDefault ==
    /\ store = NoStore
    /\ log = <<>>
    /\ splitter = IdleSplitter
    /\ calls = <<>>
    /\ data = default_data
    /\ scan = IdleScan
    /\ race = IdleRace
    /\ doc = IdleDoc

ProcessPdf(limit) ==
    /\ Len(calls) < limit
    /\ \E filename \in Filenames, text_list \in TokenStreams :
          LET r == process_pdf_for_tags(store, text_list, filename)
          IN  /\ store' = r.store
              /\ log' = Append(log, r.log_lines)
              /\ calls' = Append(calls,
                     [filename |-> filename, text_list |-> text_list,
                      pre |-> store, post |-> r.store,
                      result |-> r.result, wrote |-> r.wrote])
    /\ UNCHANGED <<splitter, data, scan, race, doc>>

Next == ProcessPdf(MaxCalls)

Spec == Init /\ [][Next]_vars

NextDefault == ProcessPdf(MaxDefaultCalls)

SpecDefault == InitDefault /\ [][NextDefault]_vars

(***************************************************************************)
(* SpecCorrupt: the same calls, starting on a vocabulary file that cannot  *)
(* be parsed.                                                              *)
(***************************************************************************)
InitCorrupt ==
    /\ store \in CorruptStores
    /\ log = <<>>
    /\ splitter = IdleSplitter
    /\ calls = <<>>
    /\ data = default_data
    /\ scan = IdleScan
    /\ race = IdleRace
    /\ doc = IdleDoc

SpecCorrupt == InitCorrupt /\ [][Next]_vars

(***************************************************************************)
(* SpecRepair: repair_data_structure run again and again on one in-memory  *)
(* vocabulary.                                                             *)
(***************************************************************************)
InitRepair ==
    /\ data \in Vocabularies(MaxRepairKeys, {EmptyMap}, {<<>>})
    /\ log = <<>>
    /\ splitter = IdleSplitter
    /\ calls = <<>>
    /\ store = NoStore
    /\ scan = IdleScan
    /\ race = IdleRace
    /\ doc = IdleDoc

RepairRun ==
    /\ Len(calls) < MaxRepairRuns
    /\ LET r == repair_data_structure(data)
       IN  /\ data' = r.data
           /\ log' = Append(log, r.log_lines)
           /\ calls' = Append(calls, [pre |-> data, post |-> r.data])
    /\ UNCHANGED <<splitter, store, scan, race, doc>>

NextRepair == RepairRun

SpecRepair == InitRepair /\ [][NextRepair]_vars

(***************************************************************************)
(* SpecExtract: one extract_possible_tags call on a token stream.          *)
(***************************************************************************)
InitExtract ==
    /\ \E text_list \in ScanStreams, not_tags \in {<<>>, <<PT>>},
          list_tags \in {<<>>, <<PT>>, <<FV>>} :
          scan = [phase |-> "called", text_list |-> text_list,
                  not_tags |-> not_tags, list_tags |-> list_tags,
                  full_tag_list |-> <<>>, new_acronyms |-> <<>>,
                  known |-> list_tags]
    /\ store = NoStore
    /\ log = <<>>
    /\ splitter = IdleSplitter
    /\ calls = <<>>
    /\ data = default_data
    /\ race = IdleRace
    /\ doc = IdleDoc

ExtractCall ==
    /\ scan.phase = "called"
    /\ LET r == extract_possible_tags(scan.text_list, scan.not_tags, scan.list_tags)
       IN  scan' = [scan EXCEPT !.phase = "returned",
                                !.full_tag_list = r.full_tag_list,
                                !.new_acronyms = r.new_acronyms,
                                !.known = r.list_tags]
    /\ UNCHANGED <<splitter, store, log, calls, data, race, doc>>

NextExtract == ExtractCall

SpecExtract == InitExtract /\ [][NextExtract]_vars

(***************************************************************************)
(* SpecRace: two process_pdf_for_tags runs, each one a read of the         *)
(* vocabulary file (load_reference_data) followed, after the work done in  *)
(* memory, by a write of the whole document (save_json_file).  Nothing     *)
(* orders the steps of one run against those of the other.                 *)
(***************************************************************************)
InitRace ==
    /\ store \in InitialStores
    /\ log = <<>>
    /\ splitter = IdleSplitter
    /\ calls = <<>>
    /\ data = default_data
    /\ scan = IdleScan
    /\ race = IdleRace
    /\ doc = IdleDoc

\* load_reference_data of run p: the file is read (and created when absent).
RaceLoad(p) ==
    /\ race.run[p].pc = "idle"
    /\ \E text_list \in TokenStreams :
          LET l == load_json_file(store)
          IN  /\ store' = l.store
              /\ race' = [race EXCEPT
                     !.run[p].pc = "loaded",
                     !.run[p].text_list = text_list,
                     !.run[p].loaded = l.store,
                     !.order = Append(@, <<p, "load">>)]
    /\ UNCHANGED <<splitter, log, calls, data, scan, doc>>

\* The rest of run p, computed on the document it loaded; the file is
\* written when the run has tags to save.
RaceSave(p) ==
    /\ race.run[p].pc = "loaded"
    /\ LET r == process_pdf_for_tags(race.run[p].loaded, race.run[p].text_list,
                                     race.run[p].filename)
       IN  /\ store' = IF StoreFile \in r.wrote
                        THEN [store EXCEPT
                                !.content = save_json_file(@, r.store.content)]
                        ELSE store
           /\ log' = Append(log, r.log_lines)
           /\ race' = [race EXCEPT
                  !.run[p].pc = "done",
                  !.run[p].result = r.result,
                  !.order = Append(@, <<p, "save">>)]
    /\ UNCHANGED <<splitter, calls, data, scan, doc>>

NextRace == \E p \in Runs : RaceLoad(p) \/ RaceSave(p)

SpecRace == InitRace /\ [][NextRace]_vars

(***************************************************************************)
(* SpecNotes: one extract_notes_by_pattern call on a text.                 *)
(***************************************************************************)
InitNotes ==
    /\ \E text \in NoteTexts,
          pattern \in {titled_notes_pattern(<<"G","E","N","E","R","A","L">>), notes_pattern} :
          doc = [phase |-> "called", text |-> text, pattern |-> pattern,
                 result |-> <<>>]
    /\ store = NoStore
    /\ log = <<>>
    /\ splitter = IdleSplitter
    /\ calls = <<>>
    /\ data = default_data
    /\ scan = IdleScan
    /\ race = IdleRace

NotesCall ==
    /\ doc.phase = "called"
    /\ doc' = [doc EXCEPT !.phase = "returned",
                          !.result = extract_notes_by_pattern(doc.text, doc.pattern)]
    /\ UNCHANGED <<splitter, store, log, calls, data, scan, race>>

NextNotes == NotesCall

SpecNotes == InitNotes /\ [][NextNotes]_vars

(***************************************************************************)
(* SpecPatterns: one extract_two_letter_four_number_patterns call on a     *)
(* text of words.                                                          *)
(***************************************************************************)
InitPatterns ==
    /\ \E words \in SeqsUpTo(PatternWords, MaxPatternWords) :
          doc = [phase |-> "called", words |-> words,
                 text |-> PatternTextOf(words), result |-> EmptyMap]
    /\ store = NoStore
    /\ log = <<>>
    /\ splitter = IdleSplitter
    /\ calls = <<>>
    /\ data = default_data
    /\ scan = IdleScan
    /\ race = IdleRace

PatternsCall ==
    /\ doc.phase = "called"
    /\ doc' = [doc EXCEPT !.phase = "returned",
                          !.result = extract_two_letter_four_number_patterns(doc.text)]
    /\ UNCHANGED <<splitter, store, log, calls, data, scan, race>>

NextPatterns == PatternsCall

SpecPatterns == InitPatterns /\ [][NextPatterns]_vars

(***************************************************************************)
(* SpecAnalyze: analyze_pid_content called on one document, again after    *)
(* the server process has been restarted or not.                           *)
(***************************************************************************)
InitAnalyze ==
    /\ \E text \in DocTexts, tables \in DocTables :
          doc = [phase |-> "serving", text |-> text, tables |-> tables,
                 seed |-> "ascending", returned |-> <<>>]
    /\ store = NoStore
    /\ log = <<>>
    /\ splitter = IdleSplitter
    /\ calls = <<>>
    /\ data = default_data
    /\ scan = IdleScan
    /\ race = IdleRace

\* One call; the clock reading of the call is its number.
Analyze ==
    /\ doc.phase = "serving"
    /\ Len(doc.returned) < MaxAnalyses
    /\ doc' = [doc EXCEPT !.returned = Append(@,
                   [seed |-> doc.seed,
                    fields |-> analyze_pid_content(doc.text, doc.tables, doc.seed,
                                                   Str(Len(doc.returned) + 1))])]
    /\ UNCHANGED <<splitter, store, log, calls, data, scan, race>>

\* The server is started again between two calls: a new hash seed.
Restart ==
    /\ doc.phase = "serving"
    /\ doc.returned # <<>>
    /\ Len(doc.returned) < MaxAnalyses
    /\ \E seed \in HashSeeds \ {doc.seed} : doc' = [doc EXCEPT !.seed = seed]
    /\ UNCHANGED <<splitter, store, log, calls, data, scan, race>>

NextAnalyze == Analyze \/ Restart

SpecAnalyze == InitAnalyze /\ [][NextAnalyze]_vars

(***************************************************************************)
(* SpecDetect: detect_datasheet_pages called on one PDF.                   *)
(***************************************************************************)
InitDetect ==
    /\ store = NoStore
    /\ log = <<>>
    /\ calls = <<>>
    /\ data = default_data
    /\ scan = IdleScan
    /\ race = IdleRace
    /\ doc = IdleDoc
    /\ \E pdf \in Pdfs(DetectPages, MaxPages) :
          splitter = [phase |-> "called", pdf |-> pdf, datasheets |-> <<>>]

DetectCall ==
    /\ splitter.phase = "called"
    /\ splitter' = [splitter EXCEPT !.phase = "returned",
                                    !.datasheets = detect_datasheet_pages(splitter.pdf)]
    /\ UNCHANGED <<store, log, calls, data, scan, race, doc>>

NextDetect == DetectCall

SpecDetect == InitDetect /\ [][NextDetect]_vars

(***************************************************************************)
(* SpecSplit: process_document calls, one at a time, on the datasheet      *)
(* index and the datasheets directory, both empty at first, while the      *)
(* clock goes on.                                                          *)
(***************************************************************************)
InitSplit ==
    /\ store = NoStore
    /\ log = <<>>
    /\ calls = <<>>
    /\ data = default_data
    /\ scan = IdleScan
    /\ race = IdleRace
    /\ doc = IdleDoc
    /\ splitter = [phase |-> "serving", clock |-> 0,
                   file |-> [exists |-> FALSE, content |-> empty_index],
                   dir |-> EmptyMap, calls |-> <<>>]

ProcessDocument ==
    /\ splitter.phase = "serving"
    /\ Len(splitter.calls) < MaxSplitCalls
    /\ \E pdf \in Pdfs(SplitPages, MaxSplitPages), filename \in SplitFilenames,
          writable \in BOOLEAN :
          \E times \in Readings(splitter.clock, Len(detect_datasheet_pages(pdf)) + 1) :
              /\ Ordered(times)
              /\ LET finished == times[Len(times)]
                     r == process_document(splitter, pdf, filename, times, finished,
                                           writable)
                 IN  splitter' =
                         [splitter EXCEPT
                             !.clock = finished,
                             !.file = r.file,
                             !.dir = r.dir,
                             !.calls = Append(@, [pdf |-> pdf, filename |-> filename,
                                                  at |-> splitter.clock,
                                                  detected |-> r.detected,
                                                  result |-> r.result])]
    /\ UNCHANGED <<store, log, calls, data, scan, race, doc>>

\* A second passes between two calls.
Tick ==
    /\ splitter.phase = "serving"
    /\ splitter.clock < MaxClock
    /\ splitter' = [splitter EXCEPT !.clock = @ + 1]
    /\ UNCHANGED <<store, log, calls, data, scan, race, doc>>

NextSplit == ProcessDocument \/ Tick

SpecSplit == InitSplit /\ [][NextSplit]_vars

(***************************************************************************)
(* Properties.                                                             *)
(***************************************************************************)
\* The cross-reference invariant of the vocabulary: every key of
\* `instruments` is a key of `files.pid`, and every key of `files.pid` has a
\* non-empty instrument list.
Consistent(v) ==
    /\ DOMAIN v.instruments \subseteq DOMAIN v.files
    /\ \A k \in DOMAIN v.files :
          k \in DOMAIN v.instruments /\ v.instruments[k] # <<>>

\* C1 (SpecDefault): starting from the empty default vocabulary, after any
\* sequence of process_pdf_for_tags calls made one at a time, the persisted
\* vocabulary satisfies the cross-reference invariant.
C1_DefaultStaysConsistent == Consistent(store.content)

\* Three calls were made, one of which stored nothing, and two files are held.
C1_Witness ==
    /\ Len(calls) = 3
    /\ Cardinality(DOMAIN store.content.files) = 2
    /\ \E i \in DOMAIN calls : calls[i].result.tags = <<>>

SameCallTwice(i) ==
    /\ i + 1 \in DOMAIN calls
    /\ calls[i].filename = calls[i + 1].filename
    /\ calls[i].text_list = calls[i + 1].text_list

\* The call found the file recorded, or recorded it.
Recorded(c) ==
    \/ c.result.status = "already_processed"
    \/ c.result.status = "success" /\ c.result.tags # <<>>

\* C2 as stated: two calls in a row with the same filename (and document):
\* the second returns "already_processed" and leaves the persisted vocabulary
\* as the first left it.
C2_SecondCallAlreadyProcessed ==
    \A i \in DOMAIN calls :
        SameCallTwice(i) =>
            /\ calls[i + 1].result.status = "already_processed"
            /\ calls[i + 1].post = calls[i].post

\* C2 amended: the second call returns "already_processed" when the first one
\* found the file recorded or recorded it (at least one tag), and the status
\* of the first call otherwise (no token, or no tag: nothing was recorded);
\* in every case the persisted vocabulary is as the first call left it.
C2_SecondCallIdempotent ==
    \A i \in DOMAIN calls :
        SameCallTwice(i) =>
            /\ calls[i + 1].result.status =
                  IF Recorded(calls[i]) THEN "already_processed"
                  ELSE calls[i].result.status
            /\ calls[i + 1].post = calls[i].post

\* A first call that stored tags, then the same call again.
C2_Witness ==
    /\ SameCallTwice(1)
    /\ calls[1].result.status = "success"
    /\ calls[1].result.tags # <<>>
    /\ calls[1].post # calls[1].pre
    /\ calls[2].result.status = "already_processed"

HoldsPath(v, filename) == \E k \in DOMAIN v.files : v.files[k].path = filename

HoldsPathWithInstruments(v, filename) ==
    \E k \in DOMAIN v.files :
        /\ v.files[k].path = filename
        /\ k \in DOMAIN v.instruments
        /\ v.instruments[k] # <<>>

\* C3 as stated: when the filename is the stored path of a file entry, the
\* call returns "already_processed" with no tags and no new acronyms and
\* writes no file at all.
C3_RecordedPathNoWrite ==
    \A i \in DOMAIN calls :
        (calls[i].pre.exists /\ HoldsPath(calls[i].pre.content, calls[i].filename)) =>
            /\ calls[i].result.status = "already_processed"
            /\ calls[i].result.tags = <<>>
            /\ calls[i].result.new_acronyms = <<>>
            /\ calls[i].wrote = {}

\* C3 amended: when the filename is the stored path of a file entry that has
\* a non-empty instrument list, the call returns "already_processed" with no
\* tags and no new acronyms and does not write the vocabulary file; the one
\* file it writes is the repair log, which gets the entry of its repair pass.
C3_RecordedPathNoStoreWrite ==
    \A i \in DOMAIN calls :
        (calls[i].pre.exists
            /\ HoldsPathWithInstruments(calls[i].pre.content, calls[i].filename)) =>
            /\ calls[i].result.status = "already_processed"
            /\ calls[i].result.tags = <<>>
            /\ calls[i].result.new_acronyms = <<>>
            /\ calls[i].post = calls[i].pre
            /\ calls[i].wrote = {RepairLogFile}
            /\ i \in DOMAIN log /\ log[i] # <<>>

\* The recorded file is uploaded again with a document that holds tags, while
\* the vocabulary also holds an inconsistency for the repair pass to find.
C3_Witness ==
    /\ Len(calls) = 1
    /\ HoldsPathWithInstruments(calls[1].pre.content, calls[1].filename)
    /\ calls[1].text_list = <<PT, N1001>>
    /\ ~Consistent(calls[1].pre.content)
    /\ calls[1].result.status = "already_processed"

\* C4 as stated (SpecRepair): after one run of repair_data_structure the
\* vocabulary satisfies the cross-reference invariant, also when a file entry
\* had an instrument list that was empty.
C4_RepairedIsConsistent == Len(calls) >= 1 => Consistent(data)

\* C5 as stated (SpecRepair): a repair run on the result of a repair run
\* removes nothing, returns the vocabulary unchanged and logs no change.
C5_SecondRepairChangesNothing ==
    \A i \in DOMAIN calls :
        i >= 2 =>
            /\ calls[i].post = calls[i].pre
            /\ log[i] = <<Line("start", NoKey), Line("no_inconsistency", NoKey)>>

DeletedInstrumentSets(c) == DOMAIN c.pre.instruments \ DOMAIN c.post.instruments

DeletedFiles(c) == DOMAIN c.pre.files \ DOMAIN c.post.files

CountLines(entry, line) == Cardinality({j \in DOMAIN entry : entry[j] = line})

\* C6 (SpecRepair): every repair run appends one log entry; the entry holds
\* the "no inconsistency" line exactly when the run deleted nothing, and
\* otherwise one line per deleted orphan instrument set and one line per
\* deleted instrument-less file (and no such line for anything kept).
C6_RepairLogTellsDeletions ==
    /\ Len(log) = Len(calls)
    /\ \A i \in DOMAIN calls :
          LET entry == log[i]
              c == calls[i]
          IN  /\ (CountLines(entry, Line("no_inconsistency", NoKey)) >= 1)
                     <=> (DeletedInstrumentSets(c) = {} /\ DeletedFiles(c) = {})
              /\ CountLines(entry, Line("no_inconsistency", NoKey)) <= 1
              /\ \A j \in DOMAIN entry :
                    /\ entry[j].kind = "orphan_removed" =>
                          /\ entry[j].key \in DeletedInstrumentSets(c)
                          /\ CountLines(entry, entry[j]) = 1
                    /\ entry[j].kind = "empty_file_removed" =>
                          /\ entry[j].key \in DeletedFiles(c)
                          /\ CountLines(entry, entry[j]) = 1
              /\ \A k \in DeletedInstrumentSets(c) :
                    CountLines(entry, Line("orphan_removed", k)) = 1
              /\ \A k \in DeletedFiles(c) :
                    CountLines(entry, Line("empty_file_removed", k)) = 1

\* A run that deleted an orphan instrument set and two files, then a run
\* that deleted nothing.
C6_Witness ==
    /\ Len(calls) = 3
    /\ Cardinality(DeletedFiles(calls[1])) = 2
    /\ Cardinality(DeletedInstrumentSets(calls[1])) = 1
    /\ calls[3].post = calls[3].pre
    /\ log[3] = <<Line("start", NoKey), Line("no_inconsistency", NoKey)>>

\* The shapes C7 names: 1 to 6 uppercase letters; 4 digits and then at most
\* one uppercase letter.
IsAcronymShape(w) ==
    /\ Len(w) \in 1..6
    /\ \A i \in 1..Len(w) : w[i] \in UpperLetters

IsIdTagShape(w) ==
    /\ Len(w) \in {4, 5}
    /\ \A i \in 1..4 : w[i] \in Digits
    /\ Len(w) = 5 => w[5] \in UpperLetters

QualifyingIndexes(text_list, not_tags) ==
    {i \in 1..(Len(text_list) - 1) :
        /\ IsAcronymShape(text_list[i])
        /\ text_list[i] \notin Range(not_tags)
        /\ IsIdTagShape(text_list[i + 1])}

\* The j-th smallest element of a set of numbers.
Nth(Q, j) == CHOOSE q \in Q : Cardinality({p \in Q : p <= q}) = j

\* The characters of a tag before its first "-".
AcronymPart(tag) ==
    LET dash == CHOOSE j \in DOMAIN tag : tag[j] = "-" /\ \A k \in 1..(j - 1) : tag[k] # "-"
    IN  SubSeq(tag, 1, dash - 1)

\* C7 (SpecExtract): extract_possible_tags returns, in document order and
\* with duplicates kept, ACRONYM-IDTAG for exactly the indexes i where
\* token[i] is 1 to 6 uppercase letters outside the false-positive set and
\* token[i+1] is 4 digits optionally followed by one uppercase letter; no
\* returned tag comes from a token longer than 6 characters or holding a
\* character that is not an uppercase letter.
C7_TagsAreTheQualifyingPairs ==
    scan.phase = "returned" =>
        LET Q == QualifyingIndexes(scan.text_list, scan.not_tags)
            F == scan.full_tag_list
        IN  /\ Len(F) = Cardinality(Q)
            /\ \A j \in DOMAIN F :
                  /\ F[j] = scan.text_list[Nth(Q, j)] \o <<"-">>
                               \o scan.text_list[Nth(Q, j) + 1]
                  /\ Len(AcronymPart(F[j])) <= 6
                  /\ \A k \in DOMAIN AcronymPart(F[j]) :
                        AcronymPart(F[j])[k] \in UpperLetters

\* PT 1001 PT 1001 is scanned: the same tag is returned twice.
C7_Witness ==
    /\ scan.phase = "returned"
    /\ scan.text_list = <<PT, N1001, PT, N1001>>
    /\ scan.full_tag_list = <<full_tag(PT, N1001), full_tag(PT, N1001)>>

\* The first place of acronym a among the returned tags.
FirstTagOf(F, a) ==
    CHOOSE j \in DOMAIN F :
        AcronymPart(F[j]) = a /\ \A k \in 1..(j - 1) : AcronymPart(F[k]) # a

\* C8 (SpecExtract): the new-acronym list of one scan holds no acronym
\* twice, holds exactly the acronyms of the returned tags that the known
\* list did not hold when the scan began, in the order of their first
\* occurrence, and each was appended to the known list.
C8_NewAcronymsOnceInOrder ==
    scan.phase = "returned" =>
        LET F == scan.full_tag_list
            new == scan.new_acronyms
        IN  /\ \A i, j \in DOMAIN new : new[i] = new[j] => i = j
            /\ Range(new) =
                  {AcronymPart(F[j]) : j \in DOMAIN F} \ Range(scan.list_tags)
            /\ \A i, j \in DOMAIN new :
                  i < j => FirstTagOf(F, new[i]) < FirstTagOf(F, new[j])
            /\ scan.known = scan.list_tags \o new

\* PT 1001 FV 1001 PT 1001 is scanned with nothing known: PT is reported
\* once although it occurs twice.
C8_Witness ==
    /\ scan.phase = "returned"
    /\ scan.text_list = <<PT, N1001, FV, N1001, PT, N1001>>
    /\ scan.list_tags = <<>>
    /\ Len(scan.full_tag_list) = 3
    /\ scan.new_acronyms = <<PT, FV>>

\* The instrument records call c stored: those of the list under its file key
\* that come after the records the key held once the vocabulary was repaired.
HeldBefore(c) ==
    LET v == c.pre.content
        k == c.result.file_key
    IN  IF k \in DOMAIN v.files /\ k \in DOMAIN v.instruments
        THEN Len(v.instruments[k]) ELSE 0

StoredRecords(c) ==
    IF c.result.file_key = NoKey THEN <<>>
    ELSE LET lst == c.post.content.instruments[c.result.file_key]
         IN  SubSeq(lst, HeldBefore(c) + 1, Len(lst))

\* C9 (Spec): no tag a call returns and no instrument record it stores has an
\* acronym of the vocabulary's not_tags list (the list as loaded for the
\* call, which is the list at the final check).
C9_NoFalsePositiveKept ==
    \A i \in DOMAIN calls :
        LET c == calls[i]
            excluded == Range(c.pre.content.not_tags)
        IN  /\ \A j \in DOMAIN c.result.tags :
                  AcronymPart(c.result.tags[j]) \notin excluded
            /\ \A j \in DOMAIN StoredRecords(c) :
                  /\ StoredRecords(c)[j].accronyme \notin excluded
                  /\ AcronymPart(StoredRecords(c)[j].tag_less_unit) \notin excluded

\* FV 3001A PT 1001 is processed while PT is a false positive: FV-3001A
\* alone is returned and stored.
C9_Witness ==
    /\ Len(calls) = 1
    /\ calls[1].pre.content.not_tags = <<PT>>
    /\ calls[1].text_list = <<FV, N3001A, PT, N1001>>
    /\ calls[1].result.tags = <<full_tag(FV, N3001A)>>
    /\ Len(StoredRecords(calls[1])) = 1

\* C10 (Spec): after a call that returns "success", every acronym of its
\* new_acronyms is a key of the persisted acronyms_to_types with the empty
\* classification, and every acronym that was a key before keeps its
\* classification.
C10_NewAcronymsAccepted ==
    \A i \in DOMAIN calls :
        calls[i].result.status = "success" =>
            LET before == calls[i].pre.content.acronyms_to_types
                after == calls[i].post.content.acronyms_to_types
                new == calls[i].result.new_acronyms
            IN  /\ \A j \in DOMAIN new :
                      new[j] \in DOMAIN after /\ after[new[j]] = ""
                /\ \A a \in DOMAIN before :
                      a \in DOMAIN after /\ after[a] = before[a]

\* A document with FV and PT is processed while PT is classified: FV is
\* the new acronym.
C10_Witness ==
    /\ Len(calls) = 1
    /\ calls[1].result.status = "success"
    /\ calls[1].result.new_acronyms = <<FV>>
    /\ calls[1].pre.content.acronyms_to_types = (PT :> "transmitter")
    /\ calls[1].post.content.acronyms_to_types = (FV :> "" @@ PT :> "transmitter")

\* The file entries the repair pass keeps: those whose key has a non-empty
\* instrument list.
FilesKeptByRepair(v) ==
    {k \in DOMAIN v.files : k \in DOMAIN v.instruments /\ v.instruments[k] # <<>>}

\* C11 (Spec): a call that returns "success" with at least one tag gets the
\* key file_<n>, n being one more than the number of file entries left by the
\* repair pass, and the persisted vocabulary holds under that key both the
\* file entry of the filename and the instrument records of the returned
\* tags.
C11_FileKeyIsCountPlusOne ==
    \A i \in DOMAIN calls :
        LET c == calls[i]
            k == c.result.file_key
            n == Cardinality(FilesKeptByRepair(c.pre.content))
        IN  (c.result.status = "success" /\ c.result.tags # <<>>) =>
                /\ k = FileKey(n + 1)
                /\ k \in DOMAIN c.post.content.files
                /\ c.post.content.files[k].path = c.filename
                /\ k \in DOMAIN c.post.content.instruments
                /\ Len(StoredRecords(c)) = Len(c.result.tags)
                /\ \A j \in DOMAIN c.result.tags :
                      StoredRecords(c)[j].tag_less_unit = c.result.tags[j]

\* A new file is processed while the vocabulary holds file_1 with instruments
\* and file_2 without: the repair pass leaves one entry and the key is file_2.
C11_Witness ==
    /\ Len(calls) = 1
    /\ DOMAIN calls[1].pre.content.files = {FileKey(1), FileKey(2)}
    /\ FilesKeptByRepair(calls[1].pre.content) = {FileKey(1)}
    /\ calls[1].result.status = "success"
    /\ calls[1].result.file_key = FileKey(2)
    /\ calls[1].post.content.files[FileKey(2)].path = calls[1].filename
    /\ Len(calls[1].post.content.instruments[FileKey(2)]) = Len(calls[1].result.tags)

\* C13 as stated (SpecCorrupt): a call that finds the vocabulary file
\* unreadable returns a failure and leaves the file as it was.
C13_ReadFailureIsReported ==
    \A i \in DOMAIN calls :
        (calls[i].pre.exists /\ ~calls[i].pre.readable) =>
            /\ calls[i].result.status = "error"
            /\ calls[i].post = calls[i].pre

\* Both runs read the file before either wrote it.
Interleaved ==
    /\ Len(race.order) = 4
    /\ race.order[1][2] = "load"
    /\ race.order[2][2] = "load"

\* The records key k held in the document run p loaded.
HeldAtLoad(p, k) ==
    LET v == race.run[p].loaded.content
    IN  IF k \in DOMAIN v.files /\ k \in DOMAIN v.instruments
        THEN Len(v.instruments[k]) ELSE 0

Stored(p) ==
    /\ race.run[p].result.status = "success"
    /\ race.run[p].result.tags # <<>>

\* C12 (SpecRace): when the two runs both read the vocabulary file before
\* either writes it and both return "success" with tags, the file holds
\* afterwards the file entry and the instruments of the run that wrote last
\* and no file entry of the other run: one more file than the repair pass
\* kept, not two.
C12_InterleavedRunsLoseAnUpdate ==
    (Interleaved /\ \A p \in Runs : Stored(p)) =>
        LET last == race.order[4][1]
            lost == race.order[3][1]
            k == race.run[last].result.file_key
            v == store.content
        IN  /\ HoldsPath(v, RunFile[last])
            /\ ~HoldsPath(v, RunFile[lost])
            /\ k = race.run[lost].result.file_key
            /\ Len(v.instruments[k]) = HeldAtLoad(last, k) + Len(race.run[last].result.tags)
            /\ \A j \in DOMAIN race.run[last].result.tags :
                  v.instruments[k][HeldAtLoad(last, k) + j] =
                      instrument_entry(unit_code_of(RunFile[last]),
                                       race.run[last].result.tags[j])
            /\ Cardinality(DOMAIN v.files)
                   = Cardinality(FilesKeptByRepair(race.run[last].loaded.content)) + 1

\* Both runs start on an empty vocabulary, read it, then write in turn: both
\* return "success" under file_1 and the file holds the second writer's
\* entry only.
C12_Witness ==
    /\ Interleaved
    /\ race.order[3][1] = "first"
    /\ race.order[4][1] = "second"
    /\ \A p \in Runs : Stored(p) /\ race.run[p].result.file_key = FileKey(1)
    /\ DOMAIN store.content.files = {FileKey(1)}
    /\ store.content.files[FileKey(1)].path = FileB
    /\ ~HoldsPath(store.content, FileA)

\* An all-caps line ending in a colon; a numbered section start.
AllCapsColonLine(l) ==
    /\ Len(l) >= 2
    /\ l[Len(l)] = ":"
    /\ \A i \in 1..(Len(l) - 1) : l[i] \in UpperLetters \cup Whitespace

NumberedStartLine(l) ==
    \E d \in DOMAIN l, u \in DOMAIN l :
        /\ \A i \in 1..d : l[i] \in Digits
        /\ d + 1 < u
        /\ l[d + 1] = "."
        /\ \A i \in (d + 2)..(u - 1) : l[i] \in Whitespace
        /\ l[u] \in UpperLetters

StopLine(l) ==
    \/ AllCapsColonLine(l)
    \/ NumberedStartLine(l)
    \/ \E w \in section_words : Contains(Upper(l), w)

RECURSIVE DropLeadingBlank(_)
DropLeadingBlank(lst) ==
    IF lst # <<>> /\ lst[1] = <<>> THEN DropLeadingBlank(Tail(lst)) ELSE lst

\* The capture the scanner is said to make: the text after the keyword on
\* the first keyword line, then every following line, trimmed, up to the
\* first stop line; no blank line at either end.
SaidCapture(text, pattern) ==
    LET lines == Split(text, "\n")
        starts == {i \in DOMAIN lines : Search(lines[i], pattern, 1).start # 0}
    IN  IF starts = {} THEN <<>>
        ELSE LET f == CHOOSE i \in starts : \A j \in starts : i <= j
                 stops == {i \in (f + 1)..Len(lines) : StopLine(Strip(lines[i]))}
                 e == IF stops = {} THEN Len(lines) + 1
                      ELSE CHOOSE i \in stops : \A j \in stops : i <= j
                 after == Strip(SubSeq(lines[f], Search(lines[f], pattern, 1).stop,
                                       Len(lines[f])))
                 body == [i \in 1..(e - f - 1) |-> Strip(lines[f + i])]
             IN  Join(drop_trailing_empty(DropLeadingBlank(<<after>> \o body)), NewLine)

\* C14 as stated (SpecNotes): the capture starts at the first line matching
\* the keyword with the text after the keyword, goes on with each following
\* trimmed line and ends before the first stop line, blank lines kept inside
\* and dropped at both ends.
C14_CaptureIsLinesUpToStop ==
    doc.phase = "returned" => doc.result = SaidCapture(doc.text, doc.pattern)

\* The substrings of text made of two letters and four digits with no word
\* character before or after.
StructuralMatches(text) ==
    {SubSeq(text, i, i + 5) : i \in
        {j \in 1..(Len(text) - 5) :
            /\ \A k \in j..(j + 1) : text[k] \in Letters
            /\ \A k \in (j + 2)..(j + 5) : text[k] \in Digits
            /\ ~IsWordAt(text, j - 1)
            /\ ~IsWordAt(text, j + 6)}}

\* The entries of a field written "a, b, c".
Listed(value) ==
    LET parts == Split(value, ",")
    IN  [i \in DOMAIN parts |-> LStrip(parts[i])]

\* C17 (SpecPatterns): "Two Letter Four Number Patterns" lists each distinct
\* match once, matches that differ in case as different entries, in
\* ascending order; "Pattern Count" is the number of entries; and the text
\* with its words in any other order gives the same two fields.
C17_PatternsSortedDistinct ==
    doc.phase = "returned" =>
        LET M == StructuralMatches(doc.text)
        IN  IF M = {} THEN doc.result = EmptyMap
            ELSE LET entries == Listed(doc.result[PatternsKey])
                 IN  /\ Range(entries) = M
                     /\ Len(entries) = Cardinality(M)
                     /\ \A i \in 1..(Len(entries) - 1) :
                           StrLess(entries[i], entries[i + 1])
                     /\ doc.result[PatternCountKey] = Str(Cardinality(M))
                     /\ \A p \in Permutations(DOMAIN doc.words) :
                           LET other == extract_two_letter_four_number_patterns(
                                   PatternTextOf([i \in DOMAIN doc.words |-> doc.words[p[i]]]))
                           IN  /\ other[PatternsKey] = doc.result[PatternsKey]
                               /\ other[PatternCountKey] = doc.result[PatternCountKey]

\* pt1001 PT1001 pt1001: two entries, the upper-case one first.
C17_Witness ==
    /\ doc.phase = "returned"
    /\ doc.words = <<<<"p","t","1","0","0","1">>, <<"P","T","1","0","0","1">>, <<"p","t","1","0","0","1">>>>
    /\ doc.result[PatternsKey] = <<"P","T","1","0","0","1",","," ","p","t","1","0","0","1">>
    /\ doc.result[PatternCountKey] = <<"2">>

\* The category named for an upper-cased two-letter prefix.
SaidCategory(match) ==
    LET prefix == Upper(SubSeq(match, 1, 2))
        table == [c \in {<<"V","a","l","v","e","s">>, <<"I","n","s","t","r","u","m","e","n","t","s">>,
                         <<"T","r","a","n","s","m","i","t","t","e","r","s">>, <<"C","o","n","t","r","o","l","l","e","r","s">>} |->
                     IF c = <<"V","a","l","v","e","s">> THEN {<<"P","V">>, <<"C","V">>, <<"F","V">>, <<"L","V">>, <<"T","V">>}
                     ELSE IF c = <<"I","n","s","t","r","u","m","e","n","t","s">> THEN {<<"P","I">>, <<"F","I">>, <<"T","I">>, <<"L","I">>, <<"A","I">>}
                     ELSE IF c = <<"T","r","a","n","s","m","i","t","t","e","r","s">> THEN {<<"P","T">>, <<"F","T">>, <<"T","T">>, <<"L","T">>, <<"A","T">>}
                     ELSE {<<"P","C">>, <<"F","C">>, <<"T","C">>, <<"L","C">>, <<"A","C">>}]
    IN  IF \E c \in DOMAIN table : prefix \in table[c]
        THEN CHOOSE c \in DOMAIN table : prefix \in table[c]
        ELSE <<"O","t","h","e","r"," ","E","q","u","i","p","m","e","n","t">>

CategoryKeys(result) == DOMAIN result \ {PatternsKey, PatternCountKey}

\* C18 (SpecPatterns): every distinct match is listed under the key of the
\* category of its upper-cased prefix and under no other key; each category
\* key is "<Category> (<count>)" with the number of its entries, no category
\* is empty, and the counts add up to Pattern Count.
C18_OneCategoryPerMatch ==
    doc.phase = "returned" =>
        LET M == StructuralMatches(doc.text)
            keys == CategoryKeys(doc.result)
        IN  /\ \A m \in M :
                  LET holding == {k \in keys : m \in Range(Listed(doc.result[k]))}
                      n == Cardinality({o \in M : SaidCategory(o) = SaidCategory(m)})
                  IN  holding = {SaidCategory(m) \o <<" ","(">> \o Str(n) \o <<")">>}
            /\ \A k \in keys :
                  /\ Range(Listed(doc.result[k])) \subseteq M
                  /\ Range(Listed(doc.result[k])) # {}
                  /\ Cardinality(Range(Listed(doc.result[k]))) = Len(Listed(doc.result[k]))
            /\ Cardinality(UNION {{<<k, e>> : e \in Range(Listed(doc.result[k]))} : k \in keys})
                   = Cardinality(M)
            /\ M # {} => doc.result[PatternCountKey] = Str(Cardinality(M))

\* PV1234 PI5678 ZZ0001: one valve, one instrument, one other.
C18_Witness ==
    /\ doc.phase = "returned"
    /\ doc.words = <<<<"P","V","1","2","3","4">>, <<"P","I","5","6","7","8">>, <<"Z","Z","0","0","0","1">>>>
    /\ CategoryKeys(doc.result) =
           {<<"V","a","l","v","e","s"," ","(","1",")">>, <<"I","n","s","t","r","u","m","e","n","t","s"," ","(","1",")">>,
            <<"O","t","h","e","r"," ","E","q","u","i","p","m","e","n","t"," ","(","1",")">>}
    /\ doc.result[<<"V","a","l","v","e","s"," ","(","1",")">>] = <<"P","V","1","2","3","4">>
    /\ doc.result[<<"O","t","h","e","r"," ","E","q","u","i","p","m","e","n","t"," ","(","1",")">>] = <<"Z","Z","0","0","0","1">>

NotesFallbackKeys == {GeneralNotesName, NotesName}

\* The fields of the simple extractor are in the result as it returns them.
FallbackFieldsIn(fields, text) ==
    \A k \in DOMAIN fallback_notes(text) :
        k \in DOMAIN fields /\ fields[k] = fallback_notes(text)[k]

\* C15 as stated (SpecAnalyze): whenever the seven keyword patterns capture
\* no section, the simple extractor runs for GENERAL NOTES and NOTES and what
\* it captures is in the result, numbered or bullet notes found or not.
C15_FallbackWheneverNoSection ==
    \A i \in DOMAIN doc.returned :
        section_notes(doc.text, 1, EmptyMap) = EmptyMap =>
            FallbackFieldsIn(doc.returned[i].fields, doc.text)

\* C15 (SpecAnalyze): the simple extractor runs exactly when
\* extract_enhanced_notes returns nothing at all, no section capture, no
\* numbered notes and no bullet notes; then what it captures for GENERAL
\* NOTES and NOTES is in the result, and otherwise the result has neither
\* field.
C15_FallbackOnlyWhenNothingFound ==
    \A i \in DOMAIN doc.returned :
        IF extract_enhanced_notes(doc.text) = EmptyMap
        THEN FallbackFieldsIn(doc.returned[i].fields, doc.text)
        ELSE DOMAIN doc.returned[i].fields \cap NotesFallbackKeys = {}

\* NOTES: / LEGEND has been analyzed: the keyword pass, the numbered scan
\* and the bullet scan find nothing and the simple extractor gives the NOTES
\* field.
C15_Witness ==
    /\ doc.returned # <<>>
    /\ doc.text = Join(<<NotesLine, LegendLine>>, NewLine)
    /\ extract_enhanced_notes(doc.text) = EmptyMap
    /\ GeneralNotesName \notin DOMAIN doc.returned[1].fields
    /\ doc.returned[1].fields[NotesName] = doc.text

\* Words whose presence makes an extractor report something.
TriggerWords ==
    Range(common_equipment) \cup Range(service_keywords) \cup title_keywords
        \cup {Rev, <<"n","o","t","e">>}

\* A text no pattern of analyze_pid_content matches: no digit, none of the
\* keywords, no utility code, no bullet at the start of a line.
NothingToFind(text) ==
    /\ \A i \in DOMAIN text : text[i] \notin Digits
    /\ \A w \in TriggerWords : ~Contains(Lower(text), w)
    /\ \A i \in DOMAIN utility_codes : ~Contains(text, utility_codes[i])
    /\ \A i \in DOMAIN Split(text, "\n") :
          LET l == Strip(Split(text, "\n")[i])
          IN  l = <<>> \/ l[1] \notin {Bullet, "-", "*"}

BookkeepingKeys == {DocumentTypeKey, StatusKey, ProcessingDateKey}

\* C16 (SpecAnalyze): for a text no pattern matches, the empty text
\* included, and no table, the result has the bookkeeping fields and no
\* other: Status, Processing Date and the default Document Type.
C16_OnlyBookkeepingFields ==
    \A i \in DOMAIN doc.returned :
        (NothingToFind(doc.text) /\ doc.tables = <<>>) =>
            /\ DOMAIN doc.returned[i].fields = BookkeepingKeys
            /\ doc.returned[i].fields[DocumentTypeKey] = DefaultDocumentType
            /\ doc.returned[i].fields[StatusKey] = Uploaded
            /\ doc.returned[i].fields[ProcessingDateKey] = Str(i)

\* The empty text with no table has been analyzed, and so has Foo / LEGEND.
C16_Witness ==
    /\ doc.returned # <<>>
    /\ doc.tables = <<>>
    /\ doc.text \in {<<>>, Join(<<FooLine, LegendLine>>, NewLine)}
    /\ NothingToFind(doc.text)
    /\ DOMAIN doc.returned[1].fields = BookkeepingKeys

\* The fields of a result, the processing timestamp aside.
Timeless(fields) == [k \in DOMAIN fields \ {ProcessingDateKey} |-> fields[k]]

\* C19 as stated (SpecAnalyze): any two calls on the same text and tables
\* return the same field names with the same values, the processing
\* timestamp aside.
C19_SameInputSameFields ==
    \A i, j \in DOMAIN doc.returned :
        Timeless(doc.returned[i].fields) = Timeless(doc.returned[j].fields)

DatasheetWords ==
    {<<"i","n","s","t","r","u","m","e","n","t","a","t","i","o","n"," ","d","a","t","a"," ","s","h","e","e","t">>,
     <<"c","o","n","t","r","o","l"," ","v","a","l","v","e">>,
     <<"d","a","t","a","s","h","e","e","t">>}

\* C20 as stated (SpecAnalyze): Document Type is another type than the
\* default when the lower-cased text contains one of the datasheet keywords,
\* and the default type otherwise.
C20_DocumentTypeIsClassified ==
    \A i \in DOMAIN doc.returned :
        (\E w \in DatasheetWords : Contains(Lower(doc.text), w))
            = (doc.returned[i].fields[DocumentTypeKey] # DefaultDocumentType)

\* The numbers of the pages whose text holds a datasheet indicator.
IndicatorPages(pdf) ==
    {p \in 0..(Len(pdf.pages) - 1) :
        find_datasheet_indicators(pdf.pages[p + 1]) # EmptyMap}

Returned == splitter.phase = "returned" /\ splitter.pdf.readable

\* C21 (SpecDetect): for a PDF with at least one indicator page,
\* detect_datasheet_pages returns one span per indicator page, in page order;
\* each span starts at its indicator page and ends on the page before the
\* next indicator page, the last one on the last page; no two spans overlap,
\* every span has start <= end, and no page before the first indicator page
\* is in a span.
C21_OneSpanPerIndicatorPage ==
    LET pdf == splitter.pdf
        marked == IndicatorPages(pdf)
        d == splitter.datasheets
    IN  (Returned /\ marked # {}) =>
            /\ Len(d) = Cardinality(marked)
            /\ \A i \in DOMAIN d :
                  /\ d[i].start_page = Nth(marked, i)
                  /\ d[i].end_page = IF i < Len(d) THEN Nth(marked, i + 1) - 1
                                     ELSE Len(pdf.pages) - 1
                  /\ d[i].start_page <= d[i].end_page
                  /\ i < Len(d) => d[i].end_page < d[i + 1].start_page
            /\ \A p \in 0..(Len(pdf.pages) - 1) :
                  (\A q \in marked : p < q) =>
                      ~\E i \in DOMAIN d : d[i].start_page <= p /\ p <= d[i].end_page

\* A model number on the first page, a plain page, a title on the third: two
\* spans, the first of two pages.
C21_Witness ==
    /\ Returned
    /\ splitter.pdf.pages = <<ModelPage, PlainPage, TitlePage>>
    /\ Len(splitter.datasheets) = 2
    /\ splitter.datasheets[1].start_page = 0
    /\ splitter.datasheets[1].end_page = 1
    /\ splitter.datasheets[2].start_page = 2

\* C22 (SpecDetect): when no page of the PDF holds an indicator,
\* detect_datasheet_pages returns, in page order, exactly the span
\* (p, p, "Datasheet_Page_<p+1>") of every page p.
C22_EveryPageItsOwnSpan ==
    LET pdf == splitter.pdf
        d == splitter.datasheets
    IN  (Returned /\ IndicatorPages(pdf) = {}) =>
            /\ Len(d) = Len(pdf.pages)
            /\ \A p \in 0..(Len(pdf.pages) - 1) :
                  d[p + 1] = Span(p, p, DatasheetPagePrefix \o Str(p + 1))

\* Two pages without an indicator, two spans of one page.
C22_Witness ==
    /\ Returned
    /\ splitter.pdf.pages = <<PlainPage, PlainPage>>
    /\ splitter.datasheets =
           <<Span(0, 0, DatasheetPagePrefix \o <<"1">>),
             Span(1, 1, DatasheetPagePrefix \o <<"2">>)>>

AllSucceeded ==
    splitter.phase = "serving"
        /\ \A i \in DOMAIN splitter.calls : splitter.calls[i].result.status = "success"

\* The ids of the records the datasheets directory holds for a document.
SavedFor(document_id) ==
    {id \in DOMAIN splitter.dir : splitter.dir[id].document_id = document_id}

\* C23 as stated (SpecSplit): after process_document calls that all returned
\* "success", for every document entry of the index its datasheet_ids are
\* exactly the ids of the datasheet records saved for that document, each is
\* a key of the index's datasheets map with that document as document_id,
\* and total_datasheets is the number of those ids.
C23_IndexTracksSavedDatasheets ==
    AllSucceeded =>
        LET index == splitter.file.content
        IN  \A document_id \in DOMAIN index.documents :
                LET entry == index.documents[document_id]
                    ids == Range(entry.datasheet_ids)
                IN  /\ ids = SavedFor(document_id)
                    /\ \A id \in ids :
                          /\ id \in DOMAIN index.datasheets
                          /\ index.datasheets[id].document_id = document_id
                    /\ entry.total_datasheets = Cardinality(ids)

\* C30 as stated (SpecSplit): within one process_document call the ids of
\* the saved datasheets are pairwise distinct, also when two spans have the
\* same equipment name and are saved within the same second.
C30_IdsDistinctWithinCall ==
    splitter.phase = "serving" =>
        \A c \in DOMAIN splitter.calls :
            LET saved == splitter.calls[c].result.datasheets
            IN  \A i, j \in DOMAIN saved : i # j => saved[i].id # saved[j].id

\* C24 (Spec): when token extraction yields no token for a filename that is
\* not recorded, process_pdf_for_tags returns "error" with no tags and no new
\* acronyms, and the persisted vocabulary is what it was before the call.
C24_NoTokensIsAnError ==
    \A i \in DOMAIN calls :
        LET c == calls[i]
        IN  (c.text_list = <<>> /\ ~HoldsPath(c.pre.content, c.filename)) =>
                /\ c.result.status = "error"
                /\ c.result.tags = <<>>
                /\ c.result.new_acronyms = <<>>
                /\ c.post.content = c.pre.content

\* A document without tokens is uploaded under a new name while the
\* vocabulary holds another file.
C24_Witness ==
    /\ Len(calls) = 1
    /\ calls[1].text_list = <<>>
    /\ calls[1].pre.exists
    /\ HoldsPathWithInstruments(calls[1].pre.content, FileA)
    /\ calls[1].filename = FileB
    /\ ~HoldsPath(calls[1].pre.content, FileB)
    /\ calls[1].result.status = "error"
    /\ calls[1].post = calls[1].pre

\* The unit code as the specification words it: the second "-"-separated
\* segment of the filename, UNKNOWN when the filename has no "-".
SaidUnit(filename) ==
    IF \E i \in DOMAIN filename : filename[i] = "-"
    THEN LET first == CHOOSE i \in DOMAIN filename :
                          filename[i] = "-" /\ \A k \in 1..(i - 1) : filename[k] # "-"
             later == {j \in (first + 1)..Len(filename) : filename[j] = "-"}
             stop == IF later = {} THEN Len(filename) + 1
                     ELSE CHOOSE j \in later : \A k \in later : j <= k
         IN  SubSeq(filename, first + 1, stop - 1)
    ELSE UNKNOWN

SaidRecord(filename, tag) ==
    [tag |-> SaidUnit(filename) \o <<"-">> \o tag,
     tag_less_unit |-> tag,
     accronyme |-> AcronymPart(tag),
     datasheet |-> [file_id |-> "", pages |-> <<>>]]

\* A filename no file entry holds is processed and tags are stored.
UnseenStored(c) ==
    /\ ~HoldsPath(c.pre.content, c.filename)
    /\ c.result.status = "success"
    /\ c.result.tags # <<>>

\* C25 as stated (Spec): when a filename not seen before is processed with
\* final tags T, the instrument list stored under its file key is exactly one
\* record per element of T, in the order of T with duplicates kept, each with
\* the unit-qualified tag, the tag, its acronym and an empty datasheet link.
C25_OneRecordPerTag ==
    \A i \in DOMAIN calls :
        LET c == calls[i]
        IN  UnseenStored(c) =>
                c.post.content.instruments[c.result.file_key] =
                    [j \in DOMAIN c.result.tags |->
                        SaidRecord(c.filename, c.result.tags[j])]

\* C26 as stated (Spec): processing a filename no file entry holds changes
\* neither the file entry nor the instrument list of any file key the
\* vocabulary holds after the repair pass, for every vocabulary that
\* satisfies the cross-reference invariant, whatever its keys are.
C26_NewFileLeavesOthersAlone ==
    \A i \in DOMAIN calls :
        LET c == calls[i]
            repaired == repair_data_structure(c.pre.content).data
        IN  (Consistent(c.pre.content) /\ ~HoldsPath(c.pre.content, c.filename)) =>
                \A k \in DOMAIN repaired.files :
                    /\ k \in DOMAIN c.post.content.files
                    /\ c.post.content.files[k] = repaired.files[k]
                    /\ k \in DOMAIN c.post.content.instruments
                    /\ c.post.content.instruments[k] = repaired.instruments[k]

\* number_of_instruments of every file entry is the length of the instrument
\* list under the same key (0 when the key has no list).
CountsAgree(v) ==
    \A k \in DOMAIN v.files :
        v.files[k].number_of_instruments =
            IF k \in DOMAIN v.instruments THEN Len(v.instruments[k]) ELSE 0

\* C27 as stated (Spec): in every persisted vocabulary reached by
\* process_pdf_for_tags calls from a vocabulary in which it holds, each file
\* entry's number_of_instruments is the length of the instrument list under
\* the same file key.
C27_CountIsListLength ==
    (calls # <<>> /\ CountsAgree(calls[1].pre.content)) => CountsAgree(store.content)

\* C28 (SpecDefault): from the empty default vocabulary, after any sequence
\* of process_pdf_for_tags calls made one at a time, no two entries of
\* files.pid have the same path.
C28_PathsAreUnique ==
    \A k, l \in DOMAIN store.content.files :
        k # l => store.content.files[k].path # store.content.files[l].path

\* Two files are stored and one of them is uploaded again.
C28_Witness ==
    /\ Len(calls) = 3
    /\ calls[1].result.status = "success" /\ calls[1].result.tags # <<>>
    /\ calls[2].result.status = "success" /\ calls[2].result.tags # <<>>
    /\ calls[3].filename = calls[1].filename
    /\ calls[3].result.status = "already_processed"
    /\ DOMAIN store.content.files = {FileKey(1), FileKey(2)}

\* The kinds of log line that tell a deletion.
Removals(entry) ==
    {entry[j] : j \in {n \in DOMAIN entry :
                          entry[n].kind \in {"orphan_removed", "empty_file_removed"}}}

\* C29 as stated (Spec): whenever the repair pass of a call deletes an entry,
\* the vocabulary file is written before the call returns, whatever the
\* status, and the next call does not find the same inconsistency.
C29_RepairIsPersisted ==
    \A i \in DOMAIN calls :
        (calls[i].pre.exists /\ Removals(log[i]) # {}) =>
            /\ StoreFile \in calls[i].wrote
            /\ (i + 1) \in DOMAIN calls => Removals(log[i + 1]) \cap Removals(log[i]) = {}

=============================================================================
